---- MODULE Spec2Model ----
(***************************************************************************)
(* A model of the in-memory key-value server: the protocol elements, the  *)
(* command parser (Command::try_from), the store engine                   *)
(* (Command::execute under the store mutex) and the per-connection loop   *)
(* (process).                                                             *)
(*                                                                         *)
(* Text is a sequence of one-character strings, so that upper-casing and  *)
(* decimal parsing are computed character by character as the code does.  *)
(* Instants and durations are counted in milliseconds.                    *)
(***************************************************************************)
EXTENDS Integers, Sequences, FiniteSets, TLC

\* ------------------------------------------------------------------------
\* Bounds of the model.

\* Number of connection tasks spawned by main.
NumConns == 2

\* Total number of requests read from all sockets in one run.
MaxOps == 2

\* Width of the model's u64.  The code's u64 has 64 bits; the model keeps
\* the wrap-around and the overflow behaviour with a narrower word.
U64Bits == 11

\* Largest instant std::time::Instant can hold, in milliseconds.  As on the
\* code's platform it lies above every u64 count of milliseconds and below
\* the largest u64 count of seconds.
InstantMax == 1000000

\* ------------------------------------------------------------------------
\* Program constants.

\* Duration::from_secs against Duration::from_millis.
MillisPerSec == 1000

U64Max == 2^U64Bits - 1

\* The signed word of the same width (i64) and the unsigned word of half
\* the range (u32).
I64Max == 2^(U64Bits - 1) - 1

I64Min == 0 - 2^(U64Bits - 1)

U32Max == 2^(U64Bits - 1) - 1

\* The size of a connection's read buffer.
BufSize == 512

\* The default of the port option.
DefaultPort == 6379

\* ------------------------------------------------------------------------
\* Protocol elements (parse.rs, enum RespElement).  Every variant is a record
\* with the same fields, the unused ones holding a default.

Element(tag, text, int, items) ==
    [tag |-> tag, text |-> text, int |-> int, items |-> items]

SimpleString(s) == Element("SimpleString", s, 0, <<>>)

SimpleError(s) == Element("SimpleError", s, 0, <<>>)

Integer(n) == Element("Integer", <<>>, n, <<>>)

BulkString(s) == Element("BulkString", s, 0, <<>>)

Array(items) == Element("Array", <<>>, 0, items)

\* RespElement::NullElement(NullBulkString), the null bulk string $-1.
NullBulkString == Element("NullElement", <<>>, 0, <<>>)

\* RespElement::Boolean, the truth value held in the integer field.
Boolean(b) == Element("Boolean", <<>>, IF b THEN 1 ELSE 0, <<>>)

\* RespElement::Null, the null of no particular kind.
Null == Element("Null", <<>>, 0, <<>>)

\* ------------------------------------------------------------------------
\* Text helpers.

LowerChars ==
    << "a", "b", "c", "d", "e", "f", "g", "h", "i", "j", "k", "l", "m",
       "n", "o", "p", "q", "r", "s", "t", "u", "v", "w", "x", "y", "z" >>

UpperChars ==
    << "A", "B", "C", "D", "E", "F", "G", "H", "I", "J", "K", "L", "M",
       "N", "O", "P", "Q", "R", "S", "T", "U", "V", "W", "X", "Y", "Z" >>

DigitChars == << "0", "1", "2", "3", "4", "5", "6", "7", "8", "9" >>

IndexIn(chars, ch) ==
    IF \E i \in 1..Len(chars) : chars[i] = ch
    THEN CHOOSE i \in 1..Len(chars) : chars[i] = ch
    ELSE 0

\* str::to_uppercase on one character.
UpperChar(ch) ==
    IF IndexIn(LowerChars, ch) > 0 THEN UpperChars[IndexIn(LowerChars, ch)] ELSE ch

\* str::to_uppercase.
to_uppercase(s) == [i \in 1..Len(s) |-> UpperChar(s[i])]

IsDigit(ch) == IndexIn(DigitChars, ch) > 0

RECURSIVE DecimalValue(_)
DecimalValue(s) ==
    IF s = <<>> THEN 0
    ELSE 10 * DecimalValue(SubSeq(s, 1, Len(s) - 1))
         + (IndexIn(DigitChars, s[Len(s)]) - 1)

\* str::parse::<u64>: an optional '+', then one or more decimal digits whose
\* value fits the word; anything else is an error.
str_parse_u64(s) ==
    LET digits == IF s # <<>> /\ s[1] = "+" THEN Tail(s) ELSE s
    IN  IF digits = <<>> \/ \E i \in 1..Len(digits) : ~IsDigit(digits[i])
        THEN [ok |-> FALSE, val |-> 0]
        ELSE IF DecimalValue(digits) > U64Max
             THEN [ok |-> FALSE, val |-> 0]
             ELSE [ok |-> TRUE, val |-> DecimalValue(digits)]

\* The decimal text of a natural number.
RECURSIVE DecimalText(_)
DecimalText(n) ==
    IF n < 10 THEN << DigitChars[n + 1] >>
    ELSE DecimalText(n \div 10) \o << DigitChars[(n % 10) + 1] >>

\* ------------------------------------------------------------------------
\* The decoder (parse.rs).  A byte is a string: a printable character stands
\* for itself, the others are named.  An element's text is the sequence of
\* the bytes of its String.

CR == "CR"

LF == "LF"

\* The zero byte the connection buffer is filled with.
NUL == "NUL"

\* Bytes above 0x7F: the lead bytes and the continuation bytes of two-byte
\* characters (U+00E9 is 0xC3 0xA9, U+00C3 is 0xC3 0x83, U+00C2 is 0xC3 0x82,
\* U+00A9 is 0xC2 0xA9).
LeadBytes == { "0xC2", "0xC3" }

ContBytes == { "0x82", "0x83", "0xA9" }

\* A byte that occurs in no UTF-8 text.
BadByte == "0xFF"

\* A decoder input (&[u8]): `bytes`, followed by zero bytes up to `len`.
Input(bytes, len) == [bytes |-> bytes, len |-> len]

At(inp, i) == IF i <= Len(inp.bytes) THEN inp.bytes[i] ELSE NUL

Slice(inp, a, b) == [i \in 1..(b - a + 1) |-> At(inp, a + i - 1)]

IsLineBreak(b) == b \in {CR, LF}

NotDigit(b) == ~IsDigit(b)

\* The byte is of the class, a class being named by its test.
InClass(class, b) ==
    IF class = "IsLineBreak" THEN IsLineBreak(b) ELSE NotDigit(b)

\* The first position from pos on whose byte is of the class, one past the
\* end of the input when there is none.
FirstWhere(inp, pos, class) ==
    IF \E i \in pos..inp.len : InClass(class, At(inp, i))
    THEN CHOOSE i \in pos..inp.len :
            InClass(class, At(inp, i))
            /\ \A j \in pos..(i - 1) : ~InClass(class, At(inp, j))
    ELSE inp.len + 1

\* std::str::from_utf8(s) is Ok: every lead byte is followed by a
\* continuation byte, and no other byte above 0x7F occurs.
from_utf8_ok(s) ==
    \A i \in 1..Len(s) :
        /\ s[i] # BadByte
        /\ s[i] \in LeadBytes => (i < Len(s) /\ s[i + 1] \in ContBytes)
        /\ s[i] \in ContBytes => (i > 1 /\ s[i - 1] \in LeadBytes)

\* What a parser returns: Ok((rest, value)), Err(..), or a panic inside it.
DecodeOk(elem, pos) == [kind |-> "ok", elem |-> elem, pos |-> pos]

DecodeErr == [kind |-> "err", elem |-> NullBulkString, pos |-> 0]

DecodePanic == [kind |-> "panic", elem |-> NullBulkString, pos |-> 0]

\* nom's tag: the input goes on with exactly these bytes.
tag(inp, pos, bytes) ==
    /\ pos + Len(bytes) - 1 <= inp.len
    /\ \A i \in 1..Len(bytes) : At(inp, pos + i - 1) = bytes[i]

crlf(inp, pos) == tag(inp, pos, << CR, LF >>)

\* parse_string: the empty string when nothing, or exactly CR LF, is left;
\* otherwise the bytes up to the first CR or LF (is_not), at least one.
parse_string(inp, pos) ==
    IF pos > inp.len \/ (pos + 1 = inp.len /\ crlf(inp, pos))
    THEN DecodeOk(<<>>, pos)
    ELSE LET e == FirstWhere(inp, pos, "IsLineBreak")
         IN  IF e = pos THEN DecodeErr
             ELSE IF ~from_utf8_ok(Slice(inp, pos, e - 1)) THEN DecodePanic
             ELSE DecodeOk(Slice(inp, pos, e - 1), e)

parse_simple_string(inp, pos) ==
    IF ~tag(inp, pos, << "+" >>) THEN DecodeErr
    ELSE LET s == parse_string(inp, pos + 1)
         IN  IF s.kind # "ok" THEN s
             ELSE IF ~crlf(inp, s.pos) THEN DecodeErr
             ELSE DecodeOk(SimpleString(s.elem), s.pos + 2)

parse_simple_error(inp, pos) ==
    IF ~tag(inp, pos, << "-" >>) THEN DecodeErr
    ELSE LET s == parse_string(inp, pos + 1)
         IN  IF s.kind # "ok" THEN s
             ELSE IF ~crlf(inp, s.pos) THEN DecodeErr
             ELSE DecodeOk(SimpleError(s.elem), s.pos + 2)

\* nom's u32: one or more digits whose value fits the word.
u32_parser(inp, pos) ==
    LET e == FirstWhere(inp, pos, "NotDigit")
    IN  IF e = pos THEN DecodeErr
        ELSE IF DecimalValue(Slice(inp, pos, e - 1)) > U32Max THEN DecodeErr
        ELSE DecodeOk(DecimalValue(Slice(inp, pos, e - 1)), e)

\* nom's i64: an optional sign, then one or more digits whose signed value
\* fits the word.
i64_parser(inp, pos) ==
    LET signed == pos <= inp.len /\ At(inp, pos) \in {"+", "-"}
        start == IF signed THEN pos + 1 ELSE pos
        e == FirstWhere(inp, start, "NotDigit")
        v == IF signed /\ At(inp, pos) = "-"
             THEN 0 - DecimalValue(Slice(inp, start, e - 1))
             ELSE DecimalValue(Slice(inp, start, e - 1))
    IN  IF e = start THEN DecodeErr
        ELSE IF v > I64Max \/ v < I64Min THEN DecodeErr
        ELSE DecodeOk(v, e)

parse_integer(inp, pos) ==
    IF ~tag(inp, pos, << ":" >>) THEN DecodeErr
    ELSE LET n == i64_parser(inp, pos + 1)
         IN  IF n.kind # "ok" THEN n
             ELSE IF ~crlf(inp, n.pos) THEN DecodeErr
             ELSE DecodeOk(Integer(n.elem), n.pos + 2)

\* parse_bulk_string: split_at panics when the declared length is more than
\* the bytes left, and from_utf8(..).unwrap() when the payload is no text.
parse_bulk_string(inp, pos) ==
    IF ~tag(inp, pos, << "$" >>) THEN DecodeErr
    ELSE LET n == u32_parser(inp, pos + 1)
         IN  IF n.kind # "ok" THEN n
             ELSE IF ~crlf(inp, n.pos) THEN DecodeErr
             ELSE LET from == n.pos + 2
                      to == from + n.elem - 1
                  IN  IF to > inp.len THEN DecodePanic
                      ELSE IF ~crlf(inp, to + 1) THEN DecodeErr
                      ELSE IF ~from_utf8_ok(Slice(inp, from, to)) THEN DecodePanic
                      ELSE DecodeOk(BulkString(Slice(inp, from, to)), to + 3)

parse_boolean(inp, pos) ==
    IF tag(inp, pos, << "#", "t", CR, LF >>) THEN DecodeOk(Boolean(TRUE), pos + 4)
    ELSE IF tag(inp, pos, << "#", "f", CR, LF >>) THEN DecodeOk(Boolean(FALSE), pos + 4)
    ELSE DecodeErr

parse_null_bulk_string(inp, pos) ==
    IF tag(inp, pos, << "$", "-", "1", CR, LF >>)
    THEN DecodeOk(NullBulkString, pos + 5)
    ELSE DecodeErr

\* struct NullArray, which is no variant of RespElement.
NullArray == Element("NullArray", <<>>, 0, <<>>)

\* parse_null_array and parse_null, which parse_element does not call.
parse_null_array(inp, pos) ==
    IF tag(inp, pos, << "*", "-", "1", CR, LF >>)
    THEN DecodeOk(NullArray, pos + 5)
    ELSE DecodeErr

parse_null(inp, pos) ==
    IF tag(inp, pos, << "_", CR, LF >>) THEN DecodeOk(Null, pos + 3) ELSE DecodeErr

\* parse_element and parse_array.  alt takes the first parser that does not
\* return Err; a panic inside a parser is not an Err.
RECURSIVE parse_element(_, _)
RECURSIVE parse_items(_, _, _, _)
parse_items(inp, pos, n, acc) ==
    IF n = 0 THEN DecodeOk(Array(acc), pos)
    ELSE LET r == parse_element(inp, pos)
         IN  IF r.kind # "ok" THEN r
             ELSE parse_items(inp, r.pos, n - 1, Append(acc, r.elem))

parse_array(inp, pos) ==
    IF ~tag(inp, pos, << "*" >>) THEN DecodeErr
    ELSE LET n == u32_parser(inp, pos + 1)
         IN  IF n.kind # "ok" THEN n
             ELSE IF ~crlf(inp, n.pos) THEN DecodeErr
             ELSE parse_items(inp, n.pos + 2, n.elem, << >>)

parse_element(inp, pos) ==
    LET r1 == parse_simple_string(inp, pos)
        r2 == parse_simple_error(inp, pos)
        r3 == parse_integer(inp, pos)
        r4 == parse_bulk_string(inp, pos)
        r5 == parse_array(inp, pos)
        r6 == parse_null_bulk_string(inp, pos)
    IN  IF r1.kind # "err" THEN r1
        ELSE IF r2.kind # "err" THEN r2
        ELSE IF r3.kind # "err" THEN r3
        ELSE IF r4.kind # "err" THEN r4
        ELSE IF r5.kind # "err" THEN r5
        ELSE IF r6.kind # "err" THEN r6
        ELSE parse_boolean(inp, pos)

\* ------------------------------------------------------------------------
\* The encoder (parse.rs, RespSerialise).

\* format!("{}", n) of a signed integer.
SignedText(n) == IF n < 0 THEN << "-" >> \o DecimalText(0 - n) ELSE DecimalText(n)

\* `b as char` pushed onto a String: a byte up to 0x7F stays one byte, a
\* byte above it becomes the two bytes of the character with that number.
CharBytes(b) ==
    IF b \in ContBytes THEN << "0xC2", b >>
    ELSE IF b = "0xC2" THEN << "0xC3", "0x82" >>
    ELSE IF b = "0xC3" THEN << "0xC3", "0x83" >>
    ELSE << b >>

RECURSIVE AsChars(_)
AsChars(bytes) ==
    IF bytes = << >> THEN << >>
    ELSE CharBytes(Head(bytes)) \o AsChars(Tail(bytes))

RECURSIVE serialise(_)
RECURSIVE serialise_items(_)
serialise_items(items) ==
    IF items = << >> THEN << >>
    ELSE AsChars(serialise(Head(items))) \o serialise_items(Tail(items))

serialise(e) ==
    IF e.tag = "SimpleString" THEN << "+" >> \o e.text \o << CR, LF >>
    ELSE IF e.tag = "SimpleError" THEN << "-" >> \o e.text \o << CR, LF >>
    ELSE IF e.tag = "Integer" THEN << ":" >> \o SignedText(e.int) \o << CR, LF >>
    ELSE IF e.tag = "BulkString"
         THEN << "$" >> \o DecimalText(Len(e.text)) \o << CR, LF >>
              \o e.text \o << CR, LF >>
    ELSE IF e.tag = "Array"
         THEN << "*" >> \o DecimalText(Len(e.items)) \o << CR, LF >>
              \o serialise_items(e.items)
    ELSE IF e.tag = "Boolean"
         THEN << "#", IF e.int = 1 THEN "t" ELSE "f", CR, LF >>
    ELSE IF e.tag = "Null" THEN << "_", CR, LF >>
    ELSE << "$", "-", "1", CR, LF >>

\* ------------------------------------------------------------------------
\* Commands (command.rs, enum Command, struct SetCommand, enum ExpiryOpt).

NoExpiry == [kind |-> "None", n |-> 0]

Expiry(kind, n) == [kind |-> kind, n |-> n]

Cmd(op, key, value, only_if, get, expiry, params) ==
    [op |-> op, key |-> key, value |-> value, only_if |-> only_if,
     get |-> get, expiry |-> expiry, params |-> params]

CmdPing == Cmd("Ping", <<>>, <<>>, "None", FALSE, NoExpiry, <<>>)

CmdEcho(message) == Cmd("Echo", <<>>, message, "None", FALSE, NoExpiry, <<>>)

CmdGet(key) == Cmd("Get", key, <<>>, "None", FALSE, NoExpiry, <<>>)

CmdSet(key, value, only_if, get, expiry) ==
    Cmd("Set", key, value, only_if, get, expiry, <<>>)

CmdGetConfig(params) == Cmd("GetConfig", <<>>, <<>>, "None", FALSE, NoExpiry, params)

\* Result<Command, CommandError>.
Ok(cmd) == [ok |-> TRUE, err |-> "None", cmd |-> cmd]

Err(e) == [ok |-> FALSE, err |-> e, cmd |-> CmdPing]

\* A parse_int that takes a number from a bulk string only.
parse_intTextOnly(element) ==
    IF element.tag = "BulkString"
    THEN str_parse_u64(element.text)
    ELSE [ok |-> FALSE, val |-> 0]

\* fn parse_int(element) -> Result<u64, CommandError>.  A native Integer is
\* cast with `as u64`, which wraps a negative value around the word.
parse_int(element) ==
    IF element.tag = "Integer"
    THEN [ok |-> TRUE, val |-> element.int % (U64Max + 1)]
    ELSE IF element.tag = "BulkString"
         THEN str_parse_u64(element.text)
         ELSE [ok |-> FALSE, val |-> 0]

\* The token texts the parser compares against.
tPING == << "P", "I", "N", "G" >>

tECHO == << "E", "C", "H", "O" >>

tGET == << "G", "E", "T" >>

tSET == << "S", "E", "T" >>

tCONFIG == << "C", "O", "N", "F", "I", "G" >>

tNX == << "N", "X" >>

tXX == << "X", "X" >>

tEX == << "E", "X" >>

tPX == << "P", "X" >>

tEXAT == << "E", "X", "A", "T" >>

tPXAT == << "P", "X", "A", "T" >>

tKEEPTTL == << "K", "E", "E", "P", "T", "T", "L" >>

\* The kind of ExpiryOpt an option keyword that takes an argument produces.
ExpiryKindOf(arg) ==
    IF arg = tEX THEN "Seconds"
    ELSE IF arg = tPX THEN "Milliseconds"
    ELSE IF arg = tEXAT THEN "TimestampSeconds"
    ELSE "TimestampMilliseconds"

\* An option loop in which a later NX or XX replaces an earlier one.
RECURSIVE SetOptionsOverwriting(_, _, _, _, _)
SetOptionsOverwriting(elements, idx, only_if, get, expiry) ==
    IF ~(idx < Len(elements))
    THEN Ok(CmdSet(elements[2].text, elements[3].text, only_if, get, expiry))
    ELSE LET el == elements[idx + 1]
             arg == to_uppercase(el.text)
         IN  IF el.tag # "BulkString" THEN Err("InvalidCommand")
             ELSE IF arg = tNX
                  THEN SetOptionsOverwriting(elements, idx + 1, "DoesNotExists", get, expiry)
             ELSE IF arg = tXX
                  THEN SetOptionsOverwriting(elements, idx + 1, "AlreadyExists", get, expiry)
             ELSE IF arg = tGET /\ ~get
                  THEN SetOptionsOverwriting(elements, idx + 1, only_if, TRUE, expiry)
             ELSE IF arg = tGET THEN Err("SyntaxError")
             ELSE IF arg \in {tEX, tPX, tEXAT, tPXAT} /\ expiry.kind = "None"
                  THEN IF ~(idx + 1 < Len(elements))
                       THEN Err("SyntaxError")
                       ELSE LET value == parse_int(elements[idx + 2])
                            IN  IF ~value.ok THEN Err("SyntaxError")
                                ELSE SetOptionsOverwriting(elements, idx + 2, only_if, get,
                                                Expiry(ExpiryKindOf(arg), value.val))
             ELSE IF arg = tKEEPTTL /\ expiry.kind = "None"
                  THEN SetOptionsOverwriting(elements, idx + 1, only_if, get, Expiry("KeepTtl", 0))
             ELSE IF arg \in {tEX, tPX, tEXAT, tPXAT, tKEEPTTL} THEN Err("SyntaxError")
             ELSE Err("InvalidCommand")

\* An option loop that reads the argument of EX, PX, EXAT and PXAT but
\* goes on with that same item.
RECURSIVE SetOptionsKeepingArgument(_, _, _, _, _)
SetOptionsKeepingArgument(elements, idx, only_if, get, expiry) ==
    IF ~(idx < Len(elements))
    THEN Ok(CmdSet(elements[2].text, elements[3].text, only_if, get, expiry))
    ELSE LET el == elements[idx + 1]
             arg == to_uppercase(el.text)
         IN  IF el.tag # "BulkString" THEN Err("InvalidCommand")
             ELSE IF arg = tNX /\ only_if = "None"
                  THEN SetOptionsKeepingArgument(elements, idx + 1, "DoesNotExists", get, expiry)
             ELSE IF arg = tXX /\ only_if = "None"
                  THEN SetOptionsKeepingArgument(elements, idx + 1, "AlreadyExists", get, expiry)
             ELSE IF arg \in {tNX, tXX} THEN Err("SyntaxError")
             ELSE IF arg = tGET /\ ~get
                  THEN SetOptionsKeepingArgument(elements, idx + 1, only_if, TRUE, expiry)
             ELSE IF arg = tGET THEN Err("SyntaxError")
             ELSE IF arg \in {tEX, tPX, tEXAT, tPXAT} /\ expiry.kind = "None"
                  THEN IF ~(idx + 1 < Len(elements))
                       THEN Err("SyntaxError")
                       ELSE LET value == parse_int(elements[idx + 2])
                            IN  IF ~value.ok THEN Err("SyntaxError")
                                ELSE SetOptionsKeepingArgument(elements, idx + 1, only_if, get,
                                    Expiry(ExpiryKindOf(arg), value.val))
             ELSE IF arg = tKEEPTTL /\ expiry.kind = "None"
                  THEN SetOptionsKeepingArgument(elements, idx + 1, only_if, get, Expiry("KeepTtl", 0))
             ELSE IF arg \in {tEX, tPX, tEXAT, tPXAT, tKEEPTTL} THEN Err("SyntaxError")
             ELSE Err("InvalidCommand")

\* An option loop that compares the items as they are written.
RECURSIVE SetOptionsCaseSensitive(_, _, _, _, _)
SetOptionsCaseSensitive(elements, idx, only_if, get, expiry) ==
    IF ~(idx < Len(elements))
    THEN Ok(CmdSet(elements[2].text, elements[3].text, only_if, get, expiry))
    ELSE LET el == elements[idx + 1]
             arg == el.text
         IN  IF el.tag # "BulkString" THEN Err("InvalidCommand")
             ELSE IF arg = tNX /\ only_if = "None"
                  THEN SetOptionsCaseSensitive(elements, idx + 1, "DoesNotExists", get, expiry)
             ELSE IF arg = tXX /\ only_if = "None"
                  THEN SetOptionsCaseSensitive(elements, idx + 1, "AlreadyExists", get, expiry)
             ELSE IF arg \in {tNX, tXX} THEN Err("SyntaxError")
             ELSE IF arg = tGET /\ ~get
                  THEN SetOptionsCaseSensitive(elements, idx + 1, only_if, TRUE, expiry)
             ELSE IF arg = tGET THEN Err("SyntaxError")
             ELSE IF arg \in {tEX, tPX, tEXAT, tPXAT} /\ expiry.kind = "None"
                  THEN IF ~(idx + 1 < Len(elements))
                       THEN Err("SyntaxError")
                       ELSE LET value == parse_int(elements[idx + 2])
                            IN  IF ~value.ok THEN Err("SyntaxError")
                                ELSE SetOptionsCaseSensitive(elements, idx + 2, only_if, get,
                                                Expiry(ExpiryKindOf(arg), value.val))
             ELSE IF arg = tKEEPTTL /\ expiry.kind = "None"
                  THEN SetOptionsCaseSensitive(elements, idx + 1, only_if, get, Expiry("KeepTtl", 0))
             ELSE IF arg \in {tEX, tPX, tEXAT, tPXAT, tKEEPTTL} THEN Err("SyntaxError")
             ELSE Err("InvalidCommand")

\* An option loop in which GET forgets the NX or XX read before it.
RECURSIVE SetOptionsGetResets(_, _, _, _, _)
SetOptionsGetResets(elements, idx, only_if, get, expiry) ==
    IF ~(idx < Len(elements))
    THEN Ok(CmdSet(elements[2].text, elements[3].text, only_if, get, expiry))
    ELSE LET el == elements[idx + 1]
             arg == to_uppercase(el.text)
         IN  IF el.tag # "BulkString" THEN Err("InvalidCommand")
             ELSE IF arg = tNX /\ only_if = "None"
                  THEN SetOptionsGetResets(elements, idx + 1, "DoesNotExists", get, expiry)
             ELSE IF arg = tXX /\ only_if = "None"
                  THEN SetOptionsGetResets(elements, idx + 1, "AlreadyExists", get, expiry)
             ELSE IF arg \in {tNX, tXX} THEN Err("SyntaxError")
             ELSE IF arg = tGET /\ ~get
                  THEN SetOptionsGetResets(elements, idx + 1, "None", TRUE, expiry)
             ELSE IF arg = tGET THEN Err("SyntaxError")
             ELSE IF arg \in {tEX, tPX, tEXAT, tPXAT} /\ expiry.kind = "None"
                  THEN IF ~(idx + 1 < Len(elements))
                       THEN Err("SyntaxError")
                       ELSE LET value == parse_int(elements[idx + 2])
                            IN  IF ~value.ok THEN Err("SyntaxError")
                                ELSE SetOptionsGetResets(elements, idx + 2, only_if, get,
                                                Expiry(ExpiryKindOf(arg), value.val))
             ELSE IF arg = tKEEPTTL /\ expiry.kind = "None"
                  THEN SetOptionsGetResets(elements, idx + 1, only_if, get, Expiry("KeepTtl", 0))
             ELSE IF arg \in {tEX, tPX, tEXAT, tPXAT, tKEEPTTL} THEN Err("SyntaxError")
             ELSE Err("InvalidCommand")

\* The option loop of the SET arm of try_from: `while idx < elements.len()`,
\* with the locals only_if, get and expiry.  Indices are 1-based here, so the
\* code's elements[idx] is elements[idx + 1].
RECURSIVE SetOptions(_, _, _, _, _)
SetOptions(elements, idx, only_if, get, expiry) ==
    IF ~(idx < Len(elements))
    THEN Ok(CmdSet(elements[2].text, elements[3].text, only_if, get, expiry))
    ELSE LET el == elements[idx + 1]
             arg == to_uppercase(el.text)
         IN  IF el.tag # "BulkString" THEN Err("InvalidCommand")
             ELSE IF arg = tNX /\ only_if = "None"
                  THEN SetOptions(elements, idx + 1, "DoesNotExists", get, expiry)
             ELSE IF arg = tXX /\ only_if = "None"
                  THEN SetOptions(elements, idx + 1, "AlreadyExists", get, expiry)
             ELSE IF arg \in {tNX, tXX} THEN Err("SyntaxError")
             ELSE IF arg = tGET /\ ~get
                  THEN SetOptions(elements, idx + 1, only_if, TRUE, expiry)
             ELSE IF arg = tGET THEN Err("SyntaxError")
             ELSE IF arg \in {tEX, tPX, tEXAT, tPXAT} /\ expiry.kind = "None"
                  THEN IF ~(idx + 1 < Len(elements))
                       THEN Err("SyntaxError")
                       ELSE LET value == parse_int(elements[idx + 2])
                            IN  IF ~value.ok THEN Err("SyntaxError")
                                ELSE SetOptions(elements, idx + 2, only_if, get,
                                                Expiry(ExpiryKindOf(arg), value.val))
             ELSE IF arg = tKEEPTTL /\ expiry.kind = "None"
                  THEN SetOptions(elements, idx + 1, only_if, get, Expiry("KeepTtl", 0))
             ELSE IF arg \in {tEX, tPX, tEXAT, tPXAT, tKEEPTTL} THEN Err("SyntaxError")
             ELSE Err("InvalidCommand")

\* A SET arm that does not look at the kind of the value item.
SetFromRespUntyped(elements) ==
    IF Len(elements) < 3 THEN Err("InvalidCommand")
    ELSE IF elements[2].tag # "BulkString" THEN Err("InvalidCommand")
    ELSE SetOptions(elements, 3, "None", FALSE, NoExpiry)

\* The SET arm of try_from.
SetFromResp(elements) ==
    IF Len(elements) < 3 THEN Err("InvalidCommand")
    ELSE IF elements[2].tag # "BulkString" THEN Err("InvalidCommand")
    ELSE IF elements[3].tag # "BulkString" THEN Err("InvalidCommand")
    ELSE SetOptions(elements, 3, "None", FALSE, NoExpiry)

\* The CONFIG arm of try_from.
ConfigFromResp(elements) ==
    IF Len(elements) < 2 THEN Err("SyntaxError")
    ELSE IF elements[2].tag # "BulkString" THEN Err("SyntaxError")
    ELSE IF elements[2].text = tGET
         THEN IF \E i \in 3..Len(elements) : elements[i].tag # "BulkString"
              THEN Err("SyntaxError")
              ELSE Ok(CmdGetConfig([i \in 1..(Len(elements) - 2) |-> elements[i + 2].text]))
         ELSE Err("UnknownCommand")

\* A parser that has no error of its own for the empty array.
try_fromEmptyUnknown(element) ==
    IF element.tag # "Array" THEN Err("UnknownCommand")
    ELSE LET elements == element.items
         IN  IF elements = <<>> THEN Err("UnknownCommand")
             ELSE IF elements[1].tag # "BulkString" THEN Err("UnknownCommand")
             ELSE LET command == elements[1].text
                  IN  IF command = tPING THEN Ok(CmdPing)
                      ELSE IF command = tECHO
                           THEN IF Len(elements) # 2 THEN Err("InvalidCommand")
                                ELSE IF elements[2].tag = "BulkString"
                                     THEN Ok(CmdEcho(elements[2].text))
                                     ELSE Err("InvalidCommand")
                      ELSE IF command = tGET
                           THEN IF Len(elements) # 2 THEN Err("InvalidCommand")
                                ELSE IF elements[2].tag = "BulkString"
                                     THEN Ok(CmdGet(elements[2].text))
                                     ELSE Err("InvalidCommand")
                      ELSE IF command = tSET THEN SetFromResp(elements)
                      ELSE IF command = tCONFIG THEN ConfigFromResp(elements)
                      ELSE Err("UnknownCommand")

\* impl TryFrom<RespElement> for Command.
try_from(element) ==
    IF element.tag # "Array" THEN Err("UnknownCommand")
    ELSE LET elements == element.items
         IN  IF elements = <<>> THEN Err("MissingCommand")
             ELSE IF elements[1].tag # "BulkString" THEN Err("UnknownCommand")
             ELSE LET command == elements[1].text
                  IN  IF command = tPING THEN Ok(CmdPing)
                      ELSE IF command = tECHO
                           THEN IF Len(elements) # 2 THEN Err("InvalidCommand")
                                ELSE IF elements[2].tag = "BulkString"
                                     THEN Ok(CmdEcho(elements[2].text))
                                     ELSE Err("InvalidCommand")
                      ELSE IF command = tGET
                           THEN IF Len(elements) # 2 THEN Err("InvalidCommand")
                                ELSE IF elements[2].tag = "BulkString"
                                     THEN Ok(CmdGet(elements[2].text))
                                     ELSE Err("InvalidCommand")
                      ELSE IF command = tSET THEN SetFromResp(elements)
                      ELSE IF command = tCONFIG THEN ConfigFromResp(elements)
                      ELSE Err("UnknownCommand")

\* ------------------------------------------------------------------------
\* The store engine (command.rs, Command::execute).

\* Option<Instant>.
NoInstant == [some |-> FALSE, at |-> 0]

SomeInstant(t) == [some |-> TRUE, at |-> t]

\* struct DbValue.
DbValue(value, expires_at) == [value |-> value, expires_at |-> expires_at]

\* HashMap::insert.
DbInsert(map, key, dbv) ==
    [k \in (DOMAIN map) \cup {key} |-> IF k = key THEN dbv ELSE map[k]]

\* The lazy expiry test of the Get arm: `expires_at < Instant::now()`.
IsExpired(dbv, t) == dbv.expires_at.some /\ dbv.expires_at.at < t

\* The Get arm, with the lock held: the reply for `key` at instant t.
GetReply(map, key, t) ==
    IF key \in DOMAIN map
    THEN IF IsExpired(map[key], t) THEN NullBulkString
         ELSE BulkString(map[key].value)
    ELSE NullBulkString

\* A conflict check that forgets the NX arm.
ShouldSetIgnoringNX(map, cmd) ==
    ~(cmd.key \notin DOMAIN map /\ cmd.only_if = "AlreadyExists")

\* A conflict check that tests the key's absence where it should test its
\* presence.
ShouldSetExistsInverted(map, cmd) ==
    IF cmd.only_if # "None" \/ cmd.get
    THEN LET exists == cmd.key \notin DOMAIN map
         IN  ~(  (exists /\ cmd.only_if = "DoesNotExists")
              \/ (~exists /\ cmd.only_if = "AlreadyExists"))
    ELSE TRUE

\* The conflict check of the Set arm: the value of should_set.
ShouldSet(map, cmd) ==
    IF cmd.only_if # "None" \/ cmd.get
    THEN LET exists == cmd.key \in DOMAIN map
         IN  ~(  (exists /\ cmd.only_if = "DoesNotExists")
              \/ (~exists /\ cmd.only_if = "AlreadyExists"))
    ELSE TRUE

\* `Instant + Duration` panics ("overflow when adding duration to instant")
\* when the sum is not representable.
InstantAdd(t, d) ==
    IF t + d > InstantMax
    THEN [panic |-> TRUE, instant |-> NoInstant]
    ELSE [panic |-> FALSE, instant |-> SomeInstant(t + d)]

\* An expires_at expression that takes the count of EX for milliseconds.
ExpiresAtSecondsAsMillis(expiry, t) ==
    IF expiry.kind = "None" THEN [panic |-> FALSE, instant |-> NoInstant]
    ELSE IF expiry.kind = "Seconds" THEN InstantAdd(t, expiry.n)
    ELSE IF expiry.kind = "Milliseconds" THEN InstantAdd(t, expiry.n)
    ELSE [panic |-> TRUE, instant |-> NoInstant]

\* The expires_at expression of the Set arm.  The three forms left as
\* todo!() panic when they are evaluated.
ExpiresAt(expiry, t) ==
    IF expiry.kind = "None" THEN [panic |-> FALSE, instant |-> NoInstant]
    ELSE IF expiry.kind = "Seconds" THEN InstantAdd(t, expiry.n * MillisPerSec)
    ELSE IF expiry.kind = "Milliseconds" THEN InstantAdd(t, expiry.n)
    ELSE [panic |-> TRUE, instant |-> NoInstant]

\* A reply read back from the mapping after the insert.
SetReplyNewValue(cmd, map) ==
    IF cmd.get THEN BulkString(cmd.value) ELSE SimpleString(<< "O", "K" >>)

\* The reply of an applied SET, from old_value = db.insert(..), where map is
\* the mapping before the insert.
SetReply(cmd, map) ==
    IF cmd.get
    THEN IF cmd.key \in DOMAIN map THEN BulkString(map[cmd.key].value)
         ELSE NullBulkString
    ELSE SimpleString(<< "O", "K" >>)

\* The reply to a request that does not parse to a command (main.rs).
ParseErrorReply ==
    SimpleError(
        << "U", "n", "a", "b", "l", "e", " ", "t", "o", " ", "p", "a", "r", "s",
           "e", " ", "i", "n", "p", "u", "t", " ", "i", "n", "t", "o", " ", "c",
           "o", "m", "m", "a", "n", "d" >>)

\* The configuration map (main.rs, load_opts), with the options' default
\* values: a name is mapped to an OptValue, whose kind is UInt, Path or
\* String.
nPort == << "p", "o", "r", "t" >>

nDir == << "d", "i", "r" >>

nDbfilename == << "d", "b", "f", "i", "l", "e", "n", "a", "m", "e" >>

OptValue(kind, text, int) == [kind |-> kind, text |-> text, int |-> int]

Opts ==
    (nPort :> OptValue("UInt", << >>, DefaultPort))
    @@ (nDir :> OptValue("Path", << "/", "t", "m", "p", "/", "r", "e", "d", "i", "s", "-", "d", "a", "t", "a" >>, 0))
    @@ (nDbfilename :> OptValue("String", << "r", "d", "b", "f", "i", "l", "e" >>, 0))

\* impl From<&OptValue> for RespElement.
OptElement(value) ==
    IF value.kind = "UInt" THEN Integer(value.int) ELSE BulkString(value.text)

\* A GetConfig arm that answers a name it does not know with a null value.
RECURSIVE GetConfigReplyWithNulls(_, _)
GetConfigReplyWithNulls(params, vec) ==
    IF params = << >> THEN Array(vec)
    ELSE LET param == Head(params)
         IN  IF param \in DOMAIN Opts
             THEN GetConfigReplyWithNulls(Tail(params),
                      vec \o << BulkString(param), OptElement(Opts[param]) >>)
             ELSE GetConfigReplyWithNulls(Tail(params),
                      vec \o << BulkString(param), NullBulkString >>)

\* The GetConfig arm: the loop over the requested names, vec being the
\* items pushed so far.
RECURSIVE GetConfigReply(_, _)
GetConfigReply(params, vec) ==
    IF params = << >> THEN Array(vec)
    ELSE LET param == Head(params)
         IN  IF param \in DOMAIN Opts
             THEN GetConfigReply(Tail(params),
                      vec \o << BulkString(param), OptElement(Opts[param]) >>)
             ELSE GetConfigReply(Tail(params), vec)

\* The replies of the arms that do not touch the store.
LocalReply(cmd) ==
    IF cmd.op = "Ping" THEN SimpleString(<< "P", "O", "N", "G" >>)
    ELSE IF cmd.op = "Echo" THEN BulkString(cmd.value)
    ELSE GetConfigReply(cmd.params, << >>)

\* A lock that excludes nobody.
CanLockNoExclusion(holder) == TRUE

\* Mutex::lock blocks until no task holds the mutex.
CanLock(holder) == holder = 0

\* ------------------------------------------------------------------------
\* The requests the clients send, as decoded elements.

kK == << "k" >>

kJ == << "j" >>

vA == << "a" >>

vB == << "b" >>

\* A request whose items are all bulk strings.
Request(texts) == Array([i \in 1..Len(texts) |-> BulkString(texts[i])])

\* NX/XX and GET on one key.
WorkloadConflict ==
    { Request(<< tSET, kK, vA, tNX >>),
      Request(<< tSET, kK, vB, tNX >>),
      Request(<< tSET, kK, vB, tXX, tGET >>),
      Request(<< tSET, kK, vA, << "g", "e", "t" >>, << "n", "x" >> >>),
      Request(<< tGET, kK >>) }

\* Relative expiry on one key, the last with the largest count of seconds.
WorkloadExpiry ==
    { Request(<< tSET, kK, vA, tPX, << "0" >> >>),
      Request(<< tSET, kK, vA, tEX, DecimalText(U64Max) >>),
      Array(<< BulkString(tSET), BulkString(kK), BulkString(vA),
               BulkString(<< "e", "x" >>), Integer(0) >>),
      Request(<< tSET, kK, vA, tEX, << "1" >> >>),
      Request(<< tSET, kK, vB >>),
      Request(<< tGET, kK >>) }

\* The expiry forms left as todo!(), beside the largest count of milliseconds.
WorkloadAbort ==
    { Request(<< tSET, kK, vA, tEXAT, << "1" >> >>),
      Request(<< tSET, kK, vA, tPXAT, << "1" >> >>),
      Request(<< tSET, kK, vA, tKEEPTTL, tNX >>),
      Request(<< tSET, kK, vB, tPX, DecimalText(U64Max) >>),
      Request(<< tGET, kK >>) }

\* Requests that decode but are no command, beside ones that are.
WorkloadErrors ==
    { Array(<<>>),
      Request(<< << "g", "e", "t" >>, kK >>),
      Request(<< tGET >>),
      Request(<< tSET, kK, vA, tNX, tXX >>),
      Request(<< tPING >>),
      Request(<< tSET, kK, vA >>) }

\* Two keys.
WorkloadKeys ==
    { Request(<< tSET, kK, vA >>),
      Request(<< tSET, kK, vB, tGET >>),
      Request(<< tSET, kJ, vA, tXX >>),
      Request(<< tGET, kK >>),
      Request(<< tGET, kJ >>) }

\* Configuration lookups: names the map holds, names it does not hold, a
\* name in another letter case, no name at all, and a subcommand in lower
\* case.
WorkloadConfig ==
    { Request(<< tCONFIG, tGET, nDir, << "n", "o", "n", "e" >> >>),
      Request(<< tCONFIG, tGET, << "n", "o", "n", "e" >>, nPort, nDbfilename >>),
      Request(<< tCONFIG, tGET, << "D", "I", "R" >> >>),
      Request(<< tCONFIG, tGET >>),
      Request(<< tCONFIG, << "g", "e", "t" >>, nDir >>) }

Workloads ==
    { WorkloadConflict, WorkloadExpiry, WorkloadAbort, WorkloadErrors, WorkloadKeys,
      WorkloadConfig }

\* Elements for the parser of commands.  The items that can follow
\* SET k a: every keyword, a keyword in lower case, a text that is no
\* keyword, number texts, a native integer and an item that is no bulk
\* string.
tZZ == << "Z", "Z" >>

OptionTokens ==
    { BulkString(t) : t \in { tNX, tXX, tGET, tEX, tPX, tEXAT, tPXAT, tKEEPTTL,
                              << "n", "x" >>, tZZ, << "1" >>, << "-", "1" >> } }
    \cup { Integer(1), SimpleString(tNX) }

\* The items tried in every combination of three.
FewOptionTokens ==
    { BulkString(tNX), BulkString(tGET), BulkString(tEX), BulkString(tKEEPTTL),
      BulkString(tZZ), BulkString(<< "1" >>), Integer(1) }

\* The items tried as the argument of EX, PX, EXAT and PXAT.
NumberTokens ==
    { BulkString(t) : t \in { << >>, << "0" >>, << "+", "1" >>, << "1", "a" >>,
                              << "1", "0", "0", "0" >>,
                              DecimalText(U64Max), DecimalText(U64Max + 1) } }
    \cup { Integer(0), Integer(1000), Integer(I64Max), Integer(0 - 1),
           NullBulkString }

SetWith(options) == Array(<< BulkString(tSET), BulkString(kK), BulkString(vA) >> \o options)

SetInputs ==
    { SetWith(<< >>) }
    \cup { SetWith(<< a >>) : a \in OptionTokens }
    \cup { SetWith(<< a, b >>) : a \in OptionTokens, b \in OptionTokens }
    \cup { SetWith(<< a, b, c >>) :
               a \in FewOptionTokens, b \in FewOptionTokens, c \in FewOptionTokens }
    \cup { SetWith(<< BulkString(kw), n >>) :
               kw \in { tEX, tPX, tEXAT, tPXAT }, n \in NumberTokens }
    \cup { Array(<< BulkString(tSET) >>),
           Array(<< BulkString(tSET), BulkString(kK) >>),
           Array(<< BulkString(tSET), Integer(1), BulkString(vA) >>),
           Array(<< BulkString(tSET), BulkString(kK), Integer(1) >>),
           Array(<< BulkString(tSET), BulkString(kK), NullBulkString, BulkString(tNX) >>) }

\* ECHO and GET with one to three items and with an argument that is no
\* bulk string.
OneArgInputs ==
    UNION { { Array(<< BulkString(verb) >>),
              Array(<< BulkString(verb), BulkString(kK) >>),
              Array(<< BulkString(verb), BulkString(kK), BulkString(kJ) >>),
              Array(<< BulkString(verb), Integer(1) >>),
              Array(<< BulkString(verb), SimpleString(kK) >>),
              Array(<< BulkString(verb), Array(<< BulkString(kK) >>) >>) }
            : verb \in { tECHO, tGET } }

\* Elements that are no array, the empty array, first items that are no
\* bulk string, and first items that name no command.
VerbInputs ==
    { SimpleString(tPING), BulkString(tPING), Integer(1), NullBulkString,
      Boolean(TRUE), SimpleError(tPING),
      Array(<< >>),
      Array(<< SimpleString(tPING) >>),
      Array(<< Integer(1) >>),
      Array(<< NullBulkString, BulkString(tPING) >>),
      Array(<< Array(<< BulkString(tPING) >>) >>),
      Array(<< Array(<< >>) >>),
      Request(<< tPING >>),
      Request(<< tPING, kK >>),
      Request(<< << "p", "i", "n", "g" >> >>),
      Request(<< << "D", "E", "L" >>, kK >>),
      Request(<< << >> >>),
      Request(<< tNX >>) }

ParseInputs == SetInputs \cup OneArgInputs \cup VerbInputs

\* Verbs and SET options in upper, lower and mixed case.
CaseInputs ==
    { Request(<< verb >>) : verb \in { tPING, << "p", "i", "n", "g" >>, << "P", "i", "n", "g" >> } }
    \cup { Request(<< verb, kK >>) : verb \in { tGET, << "g", "e", "t" >>, << "G", "e", "t" >>, tECHO, << "e", "c", "h", "o" >> } }
    \cup { Request(<< verb, kK, vA >>) : verb \in { tSET, << "s", "e", "t" >>, << "S", "e", "t" >> } }
    \cup { Request(<< << "c", "o", "n", "f", "i", "g" >>, tGET, nDir >>) }
    \cup { SetWith(<< BulkString(a) >>) :
               a \in { tNX, << "n", "x" >>, << "N", "x" >>, tXX, << "x", "x" >>, tGET, << "g", "e", "t" >>, tKEEPTTL, << "K", "e", "e", "p", "T", "t", "l" >> } }
    \cup { SetWith(<< BulkString(a), BulkString(<< "1" >>) >>) :
               a \in { tEX, << "e", "x" >>, tPX, << "p", "x" >>, << "P", "x" >>, tEXAT, << "e", "x", "a", "t" >>, tPXAT, << "p", "X", "a", "T" >> } }
    \cup { SetWith(<< BulkString(<< "n", "x" >>), BulkString(<< "p", "x" >>), BulkString(<< "1" >>),
                      BulkString(<< "G", "e", "T" >>) >>),
           SetWith(<< BulkString(<< "n", "x" >>), BulkString(<< "N", "X" >>) >>),
           SetWith(<< BulkString(<< "k", "e", "e", "p", "t", "t", "l" >>), BulkString(<< "E", "X" >>), BulkString(<< "1" >>) >>) }

\* CONFIG with its subcommand or a parameter missing or of a wrong kind,
\* beside well-formed ones.
ConfigInputs ==
    { Request(<< tCONFIG >>),
      Request(<< tCONFIG, tGET >>),
      Request(<< tCONFIG, tGET, nDir >>),
      Request(<< tCONFIG, tSET, nDir >>),
      Array(<< BulkString(tCONFIG), Integer(1) >>),
      Array(<< BulkString(tCONFIG), SimpleString(tGET), BulkString(nDir) >>),
      Array(<< BulkString(tCONFIG), NullBulkString >>),
      Array(<< BulkString(tCONFIG), BulkString(tGET), Integer(1) >>),
      Array(<< BulkString(tCONFIG), BulkString(tGET), BulkString(nDir),
               SimpleString(nPort) >>),
      Array(<< BulkString(tCONFIG), BulkString(tGET), NullBulkString,
               BulkString(nDir) >>) }

\* SET with at most one of NX and XX, GET or not, and at most one expiry
\* form, the option groups in each of their orders.
OrderInputs ==
    LET only_if == { << >>, << BulkString(tNX) >>, << BulkString(tXX) >> }
        get == { << >>, << BulkString(tGET) >> }
        expiry == { << >>,
                    << BulkString(tEX), BulkString(<< "1" >>) >>,
                    << BulkString(tPXAT), Integer(1) >>,
                    << BulkString(tKEEPTTL) >> }
    IN  UNION { { SetWith(a \o g \o e), SetWith(a \o e \o g),
                  SetWith(g \o a \o e), SetWith(g \o e \o a),
                  SetWith(e \o a \o g), SetWith(e \o g \o a) } :
                a \in only_if, g \in get, e \in expiry }

DispatchInputs == CaseInputs \cup ConfigInputs \cup OrderInputs

\* One lifetime given in seconds and in milliseconds, and a read.
WorkloadLifetime ==
    { Request(<< tSET, kK, vA, tEX, << "1" >> >>),
      Request(<< tSET, kK, vB, tPX, DecimalText(MillisPerSec) >>),
      Request(<< tGET, kK >>) }

\* A write with an expiry and a read, sent by clients that may hang up.
WorkloadClosing ==
    { Request(<< tSET, kK, vA, tPX, << "1" >> >>),
      Request(<< tGET, kK >>) }

\* What one read of a socket can deliver: the frame of a request, the text
\* of a command sent without framing, the first bytes of a frame whose rest
\* has not arrived yet, and the frames of two requests a client sent without
\* waiting for the first reply.
WorkloadFrames ==
    { serialise(Request(<< tSET, kK, vA, tPX, << "1" >> >>)),
      serialise(Request(<< tGET, kK >>)),
      serialise(Request(<< tPING >>)),
      << "P", "I", "N", "G", CR, LF >>,
      SubSeq(serialise(Request(<< tGET, kK >>)), 1, 10),
      serialise(Request(<< tSET, kK, vB >>)) \o serialise(Request(<< tGET, kK >>)) }

\* A short lifetime, then writes with NX, XX and GET and a read on the same
\* key.
WorkloadExpired ==
    { Request(<< tSET, kK, vA, tPX, << "1" >> >>),
      Request(<< tSET, kK, vB, tNX >>),
      Request(<< tSET, kK, vB, tXX, tGET >>),
      Request(<< tGET, kK >>) }

\* The readings of the monotonic clock: the start, the next instant, and the
\* instants one second after each of them.
ClockValues == { 0, 1, MillisPerSec, MillisPerSec + 1 }

\* ------------------------------------------------------------------------
\* The server.

Conns == 1..NumConns

VARIABLES
    db,        \* the shared HashMap<String, DbValue>
    poisoned,  \* the mutex's poison flag
    lock,      \* the connection holding the mutex, 0 when free
    conn,      \* per connection task: where it is in process() and its locals
    out,       \* per connection: the replies written to its socket
    now,       \* the monotonic clock
    workload,  \* the requests the clients of this run send
    nread,     \* the number of requests read so far
    hist       \* the completed store operations, in the order they ran

vars == << db, poisoned, lock, conn, out, now, workload, nread, hist >>

\* A task waiting for its socket to be readable; the locals of the loop body
\* (elem, cmd, should_set, resp) hold defaults between two requests.  buf is
\* the read buffer without the zero bytes at its end, and n the number of
\* bytes the last try_read returned (the _n of Ok(_n)).
Idle == [pc |-> "read", elem |-> Array(<< >>), cmd |-> CmdPing,
         should_set |-> TRUE, resp |-> NullBulkString, inv |-> 0,
         buf |-> << >>, n |-> 0]

Init ==
    /\ db = << >>
    /\ poisoned = FALSE
    /\ lock = 0
    /\ conn = [c \in Conns |-> Idle]
    /\ out = [c \in Conns |-> << >>]
    /\ now = 0
    /\ workload \in Workloads
    /\ nread = 0
    /\ hist = << >>

\* One completed store operation: who ran it, the command, its reply, the
\* clock reading it took, and how many operations had completed when its
\* request was read.
HistEntry(c, cmd, resp, t) ==
    [conn |-> c, cmd |-> cmd, resp |-> resp, t |-> t, inv |-> conn[c].inv]

\* A loop in which PING goes for the store lock like GET and SET.
ReadPingTakesLock(c, element) ==
    /\ conn[c].pc = "read"
    /\ nread < MaxOps
    /\ nread' = nread + 1
    /\ LET r == try_from(element)
       IN  conn' = [conn EXCEPT ![c] =
                IF ~r.ok
                THEN [Idle EXCEPT !.pc = "write", !.elem = element,
                                  !.resp = ParseErrorReply]
                ELSE IF r.cmd.op \in {"Get", "Set", "Ping"}
                     THEN [Idle EXCEPT !.pc = "lock", !.elem = element,
                                       !.cmd = r.cmd, !.inv = Len(hist)]
                     ELSE [Idle EXCEPT !.pc = "write", !.elem = element,
                                       !.cmd = r.cmd, !.resp = LocalReply(r.cmd)]]
    /\ UNCHANGED << db, poisoned, lock, out, now, workload, hist >>

\* A loop that leaves (break) on a command error instead of replying.
ReadErrorBreaks(c, element) ==
    /\ conn[c].pc = "read"
    /\ nread < MaxOps
    /\ nread' = nread + 1
    /\ LET r == try_from(element)
       IN  conn' = [conn EXCEPT ![c] =
                IF ~r.ok
                THEN [Idle EXCEPT !.pc = "closed", !.elem = element]
                ELSE IF r.cmd.op \in {"Get", "Set"}
                     THEN [Idle EXCEPT !.pc = "lock", !.elem = element,
                                       !.cmd = r.cmd, !.inv = Len(hist)]
                     ELSE [Idle EXCEPT !.pc = "write", !.elem = element,
                                       !.cmd = r.cmd, !.resp = LocalReply(r.cmd)]]
    /\ UNCHANGED << db, poisoned, lock, out, now, workload, hist >>

\* try_read returns a request; the task decodes it and parses the command.
\* PING, ECHO and CONFIG GET are executed at once, GET and SET go for the
\* lock, and a command error becomes the error reply.
Read(c, element) ==
    /\ conn[c].pc = "read"
    /\ nread < MaxOps
    /\ nread' = nread + 1
    /\ LET r == try_from(element)
       IN  conn' = [conn EXCEPT ![c] =
                IF ~r.ok
                THEN [Idle EXCEPT !.pc = "write", !.elem = element,
                                  !.resp = ParseErrorReply]
                ELSE IF r.cmd.op \in {"Get", "Set"}
                     THEN [Idle EXCEPT !.pc = "lock", !.elem = element,
                                       !.cmd = r.cmd, !.inv = Len(hist)]
                     ELSE [Idle EXCEPT !.pc = "write", !.elem = element,
                                       !.cmd = r.cmd, !.resp = LocalReply(r.cmd)]]
    /\ UNCHANGED << db, poisoned, lock, out, now, workload, hist >>

\* try_read puts the bytes of one read at the start of the buffer; the task
\* decodes the whole buffer, and parse_element(&buf).unwrap() panics when
\* the decoder returns an error, as does a panic inside the decoder.  A
\* decoded element is served as in Read.
ReadFrame(c, frame) ==
    /\ conn[c].pc = "read"
    /\ nread < MaxOps
    /\ nread' = nread + 1
    /\ LET buf == frame \o SubSeq(conn[c].buf, Len(frame) + 1, Len(conn[c].buf))
           d == parse_element(Input(buf, BufSize), 1)
           r == try_from(d.elem)
       IN  conn' = [conn EXCEPT ![c] =
                IF d.kind # "ok"
                THEN [Idle EXCEPT !.pc = "panicked", !.buf = buf, !.n = Len(frame)]
                ELSE IF ~r.ok
                THEN [Idle EXCEPT !.pc = "write", !.elem = d.elem, !.buf = buf,
                                  !.n = Len(frame), !.resp = ParseErrorReply]
                ELSE IF r.cmd.op \in {"Get", "Set"}
                     THEN [Idle EXCEPT !.pc = "lock", !.elem = d.elem, !.buf = buf,
                                       !.n = Len(frame),
                                       !.cmd = r.cmd, !.inv = Len(hist)]
                     ELSE [Idle EXCEPT !.pc = "write", !.elem = d.elem, !.buf = buf,
                                       !.n = Len(frame),
                                       !.cmd = r.cmd, !.resp = LocalReply(r.cmd)]]
    /\ UNCHANGED << db, poisoned, lock, out, now, workload, hist >>

\* db.lock().unwrap(): the task gets the mutex when it is free, and panics
\* (giving the mutex back) when an earlier holder panicked.
Lock(c) ==
    /\ conn[c].pc = "lock"
    /\ CanLock(lock)
    /\ IF poisoned
       THEN /\ conn' = [conn EXCEPT ![c].pc = "panicked"]
            /\ UNCHANGED lock
       ELSE /\ lock' = c
            /\ conn' = [conn EXCEPT ![c].pc =
                            IF conn[c].cmd.op = "Get" THEN "get" ELSE "check"]
    /\ UNCHANGED << db, poisoned, out, now, workload, nread, hist >>

\* A Get arm whose guard lives on while the reply is written.
GetKeepingLock(c) ==
    /\ conn[c].pc = "get"
    /\ LET resp == GetReply(db, conn[c].cmd.key, now)
       IN  /\ conn' = [conn EXCEPT ![c].pc = "write", ![c].resp = resp]
           /\ hist' = Append(hist, HistEntry(c, conn[c].cmd, resp, now))
    /\ UNCHANGED << db, poisoned, lock, out, now, workload, nread >>

\* A Get arm that removes the expired entry it finds.
GetEvicting(c) ==
    /\ conn[c].pc = "get"
    /\ LET key == conn[c].cmd.key
           resp == GetReply(db, key, now)
       IN  /\ conn' = [conn EXCEPT ![c].pc = "write", ![c].resp = resp]
           /\ hist' = Append(hist, HistEntry(c, conn[c].cmd, resp, now))
           /\ db' = IF key \in DOMAIN db /\ IsExpired(db[key], now)
                    THEN [k \in (DOMAIN db) \ {key} |-> db[k]]
                    ELSE db
    /\ lock' = 0
    /\ UNCHANGED << poisoned, out, now, workload, nread >>

\* The Get arm under the lock; the guard is dropped on return.
Get(c) ==
    /\ conn[c].pc = "get"
    /\ LET resp == GetReply(db, conn[c].cmd.key, now)
       IN  /\ conn' = [conn EXCEPT ![c].pc = "write", ![c].resp = resp]
           /\ hist' = Append(hist, HistEntry(c, conn[c].cmd, resp, now))
    /\ lock' = 0
    /\ UNCHANGED << db, poisoned, out, now, workload, nread >>

\* The conflict check as a lock acquisition of its own: the guard is dropped
\* before the insert.
SetCheckReleasing(c) ==
    /\ conn[c].pc = "check"
    /\ conn' = [conn EXCEPT ![c].pc = "insert",
                            ![c].should_set = ShouldSet(db, conn[c].cmd)]
    /\ lock' = 0
    /\ UNCHANGED << db, poisoned, out, now, workload, nread, hist >>

\* A conflict check that takes an entry past its expiry for an absent key.
SetCheckExpiredIsAbsent(c) ==
    /\ conn[c].pc = "check"
    /\ LET key == conn[c].cmd.key
           live == IF key \in DOMAIN db /\ IsExpired(db[key], now)
                   THEN [k \in (DOMAIN db) \ {key} |-> db[k]]
                   ELSE db
       IN  conn' = [conn EXCEPT ![c].pc = "insert",
                                ![c].should_set = ShouldSet(live, conn[c].cmd)]
    /\ UNCHANGED << db, poisoned, lock, out, now, workload, nread, hist >>

\* The Set arm under the lock, first half: the conflict check.
SetCheck(c) ==
    /\ conn[c].pc = "check"
    /\ conn' = [conn EXCEPT ![c].pc = "insert",
                            ![c].should_set = ShouldSet(db, conn[c].cmd)]
    /\ UNCHANGED << db, poisoned, lock, out, now, workload, nread, hist >>

\* An insert that leaves the expiry of the entry it replaces in place when
\* the command names none.
SetInsertKeepingExpiry(c) ==
    /\ conn[c].pc = "insert"
    /\ LET cmd == conn[c].cmd
           exp == ExpiresAt(cmd.expiry, now)
       IN  IF ~conn[c].should_set
           THEN /\ conn' = [conn EXCEPT ![c].pc = "write", ![c].resp = NullBulkString]
                /\ hist' = Append(hist, HistEntry(c, cmd, NullBulkString, now))
                /\ UNCHANGED << db, poisoned >>
           ELSE IF exp.panic
                THEN /\ conn' = [conn EXCEPT ![c].pc = "panicked"]
                     /\ poisoned' = TRUE
                     /\ UNCHANGED << db, hist >>
                ELSE /\ db' = DbInsert(db, cmd.key,
                                     DbValue(cmd.value,
                                             IF cmd.expiry.kind = "None"
                                                /\ cmd.key \in DOMAIN db
                                             THEN db[cmd.key].expires_at
                                             ELSE exp.instant))
                     /\ conn' = [conn EXCEPT ![c].pc = "write",
                                             ![c].resp = SetReply(cmd, db)]
                     /\ hist' = Append(hist, HistEntry(c, cmd, SetReply(cmd, db), now))
                     /\ UNCHANGED poisoned
    /\ lock' = 0
    /\ UNCHANGED << out, now, workload, nread >>

\* An insert whose GET reply is null when the entry it replaces had expired.
SetInsertHidingExpired(c) ==
    /\ conn[c].pc = "insert"
    /\ LET cmd == conn[c].cmd
           exp == ExpiresAt(cmd.expiry, now)
           resp == IF cmd.get /\ cmd.key \in DOMAIN db /\ IsExpired(db[cmd.key], now)
                   THEN NullBulkString
                   ELSE SetReply(cmd, db)
       IN  IF ~conn[c].should_set
           THEN /\ conn' = [conn EXCEPT ![c].pc = "write", ![c].resp = NullBulkString]
                /\ hist' = Append(hist, HistEntry(c, cmd, NullBulkString, now))
                /\ UNCHANGED << db, poisoned >>
           ELSE IF exp.panic
                THEN /\ conn' = [conn EXCEPT ![c].pc = "panicked"]
                     /\ poisoned' = TRUE
                     /\ UNCHANGED << db, hist >>
                ELSE /\ db' = DbInsert(db, cmd.key, DbValue(cmd.value, exp.instant))
                     /\ conn' = [conn EXCEPT ![c].pc = "write", ![c].resp = resp]
                     /\ hist' = Append(hist, HistEntry(c, cmd, resp, now))
                     /\ UNCHANGED poisoned
    /\ lock' = 0
    /\ UNCHANGED << out, now, workload, nread >>

\* The Set arm under the lock, second half: the insert and the reply, or the
\* null reply of a conflict.  A panic while the new value is built unwinds
\* with the guard held, which poisons the mutex.
SetInsert(c) ==
    /\ conn[c].pc = "insert"
    /\ LET cmd == conn[c].cmd
           exp == ExpiresAt(cmd.expiry, now)
       IN  IF ~conn[c].should_set
           THEN /\ conn' = [conn EXCEPT ![c].pc = "write", ![c].resp = NullBulkString]
                /\ hist' = Append(hist, HistEntry(c, cmd, NullBulkString, now))
                /\ UNCHANGED << db, poisoned >>
           ELSE IF exp.panic
                THEN /\ conn' = [conn EXCEPT ![c].pc = "panicked"]
                     /\ poisoned' = TRUE
                     /\ UNCHANGED << db, hist >>
                ELSE /\ db' = DbInsert(db, cmd.key, DbValue(cmd.value, exp.instant))
                     /\ conn' = [conn EXCEPT ![c].pc = "write",
                                             ![c].resp = SetReply(cmd, db)]
                     /\ hist' = Append(hist, HistEntry(c, cmd, SetReply(cmd, db), now))
                     /\ UNCHANGED poisoned
    /\ lock' = 0
    /\ UNCHANGED << out, now, workload, nread >>

\* stream.write_all(&resp), then the next turn of the loop.
Write(c) ==
    /\ conn[c].pc = "write"
    /\ out' = [out EXCEPT ![c] = Append(@, conn[c].resp)]
    /\ conn' = [conn EXCEPT ![c] = [Idle EXCEPT !.buf = conn[c].buf]]
    /\ UNCHANGED << db, poisoned, lock, now, workload, nread, hist >>

\* A task that ends while it still runs a command.
CloseDuringCommand(c) ==
    /\ conn[c].pc \in {"read", "lock", "get", "check", "insert"}
    /\ conn' = [conn EXCEPT ![c].pc = "closed", ![c].inv = Len(hist)]
    /\ UNCHANGED << db, poisoned, lock, out, now, workload, nread, hist >>

\* try_read returns Ok(0): the client closed its socket, and the task leaves
\* its loop.  inv keeps how many operations had completed by then.
Close(c) ==
    /\ conn[c].pc = "read"
    /\ conn' = [conn EXCEPT ![c].pc = "closed", ![c].inv = Len(hist)]
    /\ UNCHANGED << db, poisoned, lock, out, now, workload, nread, hist >>

\* stream.write_all(&resp).await.unwrap() on a socket the client has closed:
\* the write fails and the task panics, after its command was executed.
WriteFails(c) ==
    /\ conn[c].pc = "write"
    /\ conn' = [conn EXCEPT ![c].pc = "panicked"]
    /\ UNCHANGED << db, poisoned, lock, out, now, workload, nread, hist >>

\* Whether the next step of task c calls Instant::now(): the Get arm does for
\* an entry that has an expiry, the Set arm's insert does for EX and PX.
ReadsClock(c) ==
    \/ /\ conn[c].pc = "get"
       /\ conn[c].cmd.key \in DOMAIN db
       /\ db[conn[c].cmd.key].expires_at.some
    \/ /\ conn[c].pc = "insert"
       /\ conn[c].should_set
       /\ conn[c].cmd.expiry.kind \in {"Seconds", "Milliseconds"}

\* The clock moves on.  Only the value a task is about to read is observable,
\* so the model advances the clock right before a reading.
Tick ==
    /\ \E c \in Conns : ReadsClock(c)
    /\ \E t \in ClockValues : t > now /\ now' = t
    /\ UNCHANGED << db, poisoned, lock, conn, out, workload, nread, hist >>

Next ==
    \/ \E c \in Conns : \E element \in workload : Read(c, element)
    \/ \E c \in Conns : Lock(c)
    \/ \E c \in Conns : Get(c)
    \/ \E c \in Conns : SetCheck(c)
    \/ \E c \in Conns : SetInsert(c)
    \/ \E c \in Conns : Write(c)
    \/ Tick

Spec == Init /\ [][Next]_vars

\* The runs whose clients send the absolute and the keep-TTL expiry forms.
InitAbort == Init /\ workload = WorkloadAbort

SpecAbort == InitAbort /\ [][Next]_vars

\* A step of task c once it has read a request: the runtime goes on running
\* a task that can take a step, and a thread blocked in lock() is woken when
\* the mutex is free.
TaskStep(c) == Lock(c) \/ Get(c) \/ SetCheck(c) \/ SetInsert(c) \/ Write(c)

Fairness == \A c \in Conns : WF_vars(TaskStep(c))

\* The runs of SpecAbort in which no task that can go on stands still
\* forever.
SpecAbortLive == SpecAbort /\ Fairness

\* The state after construction, for clients that send the requests of w.
InitWith(w) ==
    /\ db = << >>
    /\ poisoned = FALSE
    /\ lock = 0
    /\ conn = [c \in Conns |-> Idle]
    /\ out = [c \in Conns |-> << >>]
    /\ now = 0
    /\ workload = w
    /\ nread = 0
    /\ hist = << >>

\* The runs told at the level of the bytes the sockets deliver.
InitFrames == InitWith(WorkloadFrames)

NextFrames ==
    \/ \E c \in Conns : \E frame \in workload : ReadFrame(c, frame)
    \/ \E c \in Conns : Lock(c)
    \/ \E c \in Conns : Get(c)
    \/ \E c \in Conns : SetCheck(c)
    \/ \E c \in Conns : SetInsert(c)
    \/ \E c \in Conns : Write(c)
    \/ Tick

SpecFrames == InitFrames /\ [][NextFrames]_vars

\* The runs in which clients also close their sockets.
InitClosing == InitWith(WorkloadClosing)

NextClosing ==
    \/ Next
    \/ \E c \in Conns : Close(c)
    \/ \E c \in Conns : WriteFails(c)

SpecClosing == InitClosing /\ [][NextClosing]_vars

\* The runs in which the clients send one and the same element, for every
\* element of ParseInputs.
InitParse == \E e \in ParseInputs : InitWith({ e })

SpecParse == InitParse /\ [][Next]_vars

\* The runs of the clients that set one lifetime in both units.
InitLifetime == InitWith(WorkloadLifetime)

SpecLifetime == InitLifetime /\ [][Next]_vars

\* The same, for every element of DispatchInputs.
InitDispatch == \E e \in DispatchInputs : InitWith({ e })

SpecDispatch == InitDispatch /\ [][Next]_vars

\* Time passes between two steps, whoever reads the clock next.
Elapse ==
    /\ \E t \in ClockValues : t > now /\ now' = t
    /\ UNCHANGED << db, poisoned, lock, conn, out, workload, nread, hist >>

\* The runs in which entries outlive their expiry in the mapping.
InitExpired == InitWith(WorkloadExpired)

NextExpired ==
    \/ Next
    \/ Elapse

SpecExpired == InitExpired /\ [][NextExpired]_vars

\* ------------------------------------------------------------------------
\* The codec by itself (parse.rs): each task encodes an element, or is given
\* bytes, and decodes what it has.

\* Two-byte text (U+00E9).
tEacute == << "0xC3", "0xA9" >>

tOK == << "O", "K" >>

\* Elements of every kind: empty, plain and two-byte texts, a bulk string
\* that holds a line break, the ends of the integer range, and arrays that
\* are empty, flat and nested.
CodecElements ==
    { SimpleString(<< >>), SimpleString(tOK), SimpleString(tEacute),
      SimpleError(<< >>), SimpleError(<< "E", "R", "R", " ", "x" >>),
      Integer(0), Integer(1000), Integer(0 - 42), Integer(I64Max), Integer(I64Min),
      BulkString(<< >>), BulkString(vA), BulkString(tEacute),
      BulkString(<< "a", CR, LF, "b" >>),
      Boolean(TRUE), Boolean(FALSE), NullBulkString, Null,
      Array(<< >>),
      Array(<< BulkString(vA) >>),
      Array(<< BulkString(tGET), BulkString(kK) >>),
      Array(<< SimpleString(tOK), Integer(1), NullBulkString, Boolean(TRUE) >>),
      Array(<< Array(<< Integer(1), Array(<< >>) >>), BulkString(<< >>) >>),
      Array(<< SimpleString(<< >>) >>),
      Array(<< SimpleString(<< >>), Integer(1) >>),
      Array(<< BulkString(tEacute) >>),
      Array(<< SimpleString(tEacute), BulkString(vA) >>),
      Array(<< Null >>) }

\* Bytes that follow an encoding.
Trailers ==
    { << >>, << "x" >>, << CR, LF >>, << NUL, NUL >>, << "+", "O", "K", CR, LF >>,
      << "1" >> }

\* Byte sequences as they may arrive: the null forms, the empty array and
\* the empty bulk string, bulk strings that declare more bytes than follow
\* or hold bytes that are no text, and other malformed input.
WireInputs ==
    { << "$", "-", "1", CR, LF >>,
      << "*", "-", "1", CR, LF >>,
      << "_", CR, LF >>,
      << "*", "0", CR, LF >>,
      << "$", "0", CR, LF, CR, LF >>,
      << "$", "5", CR, LF, "a", "b" >>,
      << "$", "5", CR, LF, "a", "b", CR, LF >>,
      << "$", "1", CR, LF, "a", "b", CR, LF >>,
      << "$", "1", CR, LF, BadByte, CR, LF >>,
      << "$", "2", CR, LF, "0xC3", "a", CR, LF >>,
      << "+", BadByte, CR, LF >>,
      << "*", "1", CR, LF, "$", "9", CR, LF, "a" >>,
      << "*", "2", CR, LF, ":", "1", CR, LF >>,
      << "+", "O", "K" >>,
      << "+", "O", CR, "K", CR, LF >>,
      << ":", "x", CR, LF >>,
      << ":", "+", "4", "2", CR, LF >>,
      << "#", "x", CR, LF >>,
      << "P", "I", "N", "G", CR, LF >>,
      << >> }

\* What a task is to do: encode elem and decode the encoding followed by
\* bytes, or decode bytes as they are.
CodecJob(encode, elem, bytes) == [encode |-> encode, elem |-> elem, bytes |-> bytes]

CodecJobs ==
    { CodecJob(TRUE, x, r) : x \in CodecElements, r \in Trailers }
    \cup { CodecJob(FALSE, Null, b) : b \in WireInputs }

\* A codec task: its position, the element it encoded, the encoding, the
\* bytes it decodes and the decoder's result.
CodecTask(pc, elem, enc, buf, res) ==
    [pc |-> pc, elem |-> elem, enc |-> enc, buf |-> buf, res |-> res]

InitCodec ==
    /\ db = << >>
    /\ poisoned = FALSE
    /\ lock = 0
    /\ conn = [c \in Conns |-> CodecTask("start", Null, << >>, << >>, DecodeErr)]
    /\ out = [c \in Conns |-> << >>]
    /\ now = 0
    /\ workload \in { { job } : job \in CodecJobs }
    /\ nread = 0
    /\ hist = << >>

\* RespElement::serialise: the task encodes the element; the bytes of the
\* job follow the encoding.
Encode(c, job) ==
    /\ conn[c].pc = "start"
    /\ job.encode
    /\ conn' = [conn EXCEPT ![c] =
                   CodecTask("decode", job.elem, serialise(job.elem),
                             serialise(job.elem) \o job.bytes, DecodeErr)]
    /\ UNCHANGED << db, poisoned, lock, out, now, workload, nread, hist >>

\* The task is given the bytes of the job.
Feed(c, job) ==
    /\ conn[c].pc = "start"
    /\ ~job.encode
    /\ conn' = [conn EXCEPT ![c] = CodecTask("decode", Null, << >>, job.bytes, DecodeErr)]
    /\ UNCHANGED << db, poisoned, lock, out, now, workload, nread, hist >>

\* parse_element on exactly the bytes the task has; a panic inside the
\* decoder ends the task.
Decode(c) ==
    /\ conn[c].pc = "decode"
    /\ LET res == parse_element(Input(conn[c].buf, Len(conn[c].buf)), 1)
       IN  conn' = [conn EXCEPT ![c].res = res,
                                ![c].pc = IF res.kind = "panic" THEN "panicked"
                                          ELSE "done"]
    /\ UNCHANGED << db, poisoned, lock, out, now, workload, nread, hist >>

NextCodec ==
    \/ \E c \in Conns : \E job \in workload : Encode(c, job)
    \/ \E c \in Conns : \E job \in workload : Feed(c, job)
    \/ \E c \in Conns : Decode(c)

SpecCodec == InitCodec /\ [][NextCodec]_vars

\* ------------------------------------------------------------------------
\* What the specification says of a sequence of store operations run one
\* after the other.  These read only the commands and clock readings of the
\* history, never the store or the replies.

OkReply == SimpleString(<< "O", "K" >>)

IsSetOn(e, k) == e.cmd.op = "Set" /\ e.cmd.key = k

IsGetOn(e, k) == e.cmd.op = "Get" /\ e.cmd.key = k

\* Whether the i-th operation of h is a SET that passes its conflict check,
\* and whether key k is in the mapping just before the i-th operation.
RECURSIVE AppliedAt(_, _)
PresentBefore(h, i, k) ==
    \E j \in 1..(i - 1) : IsSetOn(h[j], k) /\ AppliedAt(h, j)

AppliedAt(h, i) ==
    /\ h[i].cmd.op = "Set"
    /\ ~(h[i].cmd.only_if = "DoesNotExists" /\ PresentBefore(h, i, h[i].cmd.key))
    /\ ~(h[i].cmd.only_if = "AlreadyExists" /\ ~PresentBefore(h, i, h[i].cmd.key))

\* The last applied SET on k before the i-th operation, 0 when there is none.
LastApplied(h, i, k) ==
    IF PresentBefore(h, i, k)
    THEN CHOOSE j \in 1..(i - 1) :
            /\ IsSetOn(h[j], k) /\ AppliedAt(h, j)
            /\ \A j2 \in (j + 1)..(i - 1) : ~(IsSetOn(h[j2], k) /\ AppliedAt(h, j2))
    ELSE 0

\* The expiry instant an applied SET gives its entry: relative to the instant
\* of execution for EX and PX.
Deadline(e) ==
    IF e.cmd.expiry.kind = "Seconds" THEN SomeInstant(e.t + e.cmd.expiry.n * 1000)
    ELSE IF e.cmd.expiry.kind = "Milliseconds" THEN SomeInstant(e.t + e.cmd.expiry.n)
    ELSE NoInstant

\* The entry of k after the whole of h.
EntryAfter(h, k) ==
    LET j == LastApplied(h, Len(h) + 1, k)
    IN  DbValue(h[j].cmd.value, Deadline(h[j]))

\* The reply the i-th operation has when the operations run in h's order.
ExpectedReply(h, i) ==
    LET e == h[i]
        j == LastApplied(h, i, e.cmd.key)
    IN  IF e.cmd.op = "Get"
        THEN IF j = 0 THEN NullBulkString
             ELSE IF Deadline(h[j]).some /\ Deadline(h[j]).at < e.t THEN NullBulkString
             ELSE BulkString(h[j].cmd.value)
        ELSE IF ~AppliedAt(h, i) THEN NullBulkString
             ELSE IF ~e.cmd.get THEN OkReply
             ELSE IF j = 0 THEN NullBulkString
             ELSE BulkString(h[j].cmd.value)

\* The conflict of a SET with a mapping: XX on an absent key, NX on a present one.
Conflict(map, cmd) ==
    \/ cmd.only_if = "AlreadyExists" /\ cmd.key \notin DOMAIN map
    \/ cmd.only_if = "DoesNotExists" /\ cmd.key \in DOMAIN map

\* A SET with no NX/XX and no GET, with no expiry option or with EX or PX.
IsPlainSet(cmd) ==
    /\ cmd.op = "Set"
    /\ cmd.only_if = "None"
    /\ ~cmd.get
    /\ cmd.expiry.kind \in {"None", "Seconds", "Milliseconds"}

\* Operations i < j of the history overlapped: the request of the later one
\* was read before the earlier one completed.
Overlap(h, i, j) == i < j /\ h[j].inv < i /\ h[i].conn # h[j].conn

\* ------------------------------------------------------------------------
\* Claims.

\* C1: a SET k v with no NX/XX and no GET (with or without EX/PX) always
\* stores v under k and replies OK: its task never aborts, its reply is OK and
\* the entry holds v when it completes.  A following GET k, with no applied
\* SET on k in between and the entry not expired, returns v as a bulk string,
\* and GET of a key that was never set returns the null bulk string.
C1_PlainSetStoresAndRepliesOk ==
    /\ \A c \in Conns : IsPlainSet(conn[c].cmd) => conn[c].pc # "panicked"
    /\ \A i \in 1..Len(hist) :
          IsPlainSet(hist[i].cmd) =>
             /\ hist[i].resp = OkReply
             /\ (i = Len(hist) => /\ hist[i].cmd.key \in DOMAIN db
                                  /\ db[hist[i].cmd.key].value = hist[i].cmd.value)
    /\ \A i \in 2..Len(hist) :
          (/\ IsPlainSet(hist[i - 1].cmd)
           /\ IsGetOn(hist[i], hist[i - 1].cmd.key)
           /\ ~(Deadline(hist[i - 1]).some /\ Deadline(hist[i - 1]).at < hist[i].t))
          => hist[i].resp = BulkString(hist[i - 1].cmd.value)
    /\ \A i \in 1..Len(hist) :
          (/\ hist[i].cmd.op = "Get"
           /\ \A j \in 1..(i - 1) : ~IsSetOn(hist[j], hist[i].cmd.key))
          => hist[i].resp = NullBulkString

\* The two latest operations of the history are SETs on one key by two
\* connections that overlapped, and both have completed.
TwoConcurrentSets ==
    /\ Len(hist) >= 2
    /\ hist[Len(hist)].cmd.op = "Set"
    /\ IsSetOn(hist[Len(hist) - 1], hist[Len(hist)].cmd.key)
    /\ Overlap(hist, Len(hist) - 1, Len(hist))

\* No SET that has made its existence check and not yet its insert holds a
\* check result the store no longer supports.
NoStaleCheck ==
    \A c \in Conns :
        conn[c].pc = "insert" => (conn[c].should_set <=> ~Conflict(db, conn[c].cmd))

\* C2 as stated: when two connections concurrently execute SET on one key, no
\* check is separated from its insert by the other's mutation; after both
\* complete the store holds exactly one of the two values, and if both used NX
\* on an absent key exactly one applied (reply OK) and the other was skipped
\* (reply null).
C2_ConcurrentSetsOneValueStored ==
    /\ NoStaleCheck
    /\ TwoConcurrentSets =>
          LET j == Len(hist)
              i == j - 1
              k == hist[j].cmd.key
          IN  /\ k \in DOMAIN db
              /\ db[k].value \in {hist[i].cmd.value, hist[j].cmd.value}
              /\ (/\ hist[i].cmd.only_if = "DoesNotExists"
                  /\ hist[j].cmd.only_if = "DoesNotExists"
                  /\ ~PresentBefore(hist, i, k))
                 => \/ hist[i].resp = OkReply /\ hist[j].resp = NullBulkString
                    \/ hist[i].resp = NullBulkString /\ hist[j].resp = OkReply

\* C2 as amended: no check is separated from its insert by the other's
\* mutation; after both complete the store holds the value of the later of
\* the two that applied, and the entry k had before when both were skipped by
\* their conflict check; if both used NX on an absent key the first to take
\* the lock applied (reply OK, or null when it carried GET) and the other was
\* skipped (reply null).
C2_ConcurrentSetsLastAppliedStored ==
    /\ NoStaleCheck
    /\ TwoConcurrentSets =>
          LET j == Len(hist)
              i == j - 1
              k == hist[j].cmd.key
              before == LastApplied(hist, i, k)
          IN  /\ AppliedAt(hist, j) =>
                    k \in DOMAIN db /\ db[k].value = hist[j].cmd.value
              /\ (~AppliedAt(hist, j) /\ AppliedAt(hist, i)) =>
                    k \in DOMAIN db /\ db[k].value = hist[i].cmd.value
              /\ (~AppliedAt(hist, j) /\ ~AppliedAt(hist, i)) =>
                    /\ hist[i].resp = NullBulkString
                    /\ hist[j].resp = NullBulkString
                    /\ (k \in DOMAIN db <=> before # 0)
                    /\ (before # 0 => db[k].value = hist[before].cmd.value)
              /\ (/\ hist[i].cmd.only_if = "DoesNotExists"
                  /\ hist[j].cmd.only_if = "DoesNotExists"
                  /\ ~PresentBefore(hist, i, k))
                 => /\ hist[i].resp = (IF hist[i].cmd.get THEN NullBulkString ELSE OkReply)
                    /\ hist[j].resp = NullBulkString
                    /\ db[k].value = hist[i].cmd.value

\* Two overlapping SET NX on an absent key have completed: one applied with
\* OK, the other was skipped.
C2_Witness ==
    /\ TwoConcurrentSets
    /\ Len(hist) = 2
    /\ hist[1].cmd.only_if = "DoesNotExists"
    /\ hist[2].cmd.only_if = "DoesNotExists"
    /\ hist[1].cmd.value # hist[2].cmd.value
    /\ hist[1].resp = OkReply
    /\ hist[2].resp = NullBulkString
    /\ db[hist[1].cmd.key].value = hist[1].cmd.value

\* C3: under every interleaving the replies are those of the operations run
\* one at a time in the order they took the store lock: each GET returns the
\* payload of the most recent applied SET on its key (null if there is none
\* or it has expired), each SET's reply and effect are those of a SET that
\* saw the store with no other operation in between, and the store is the
\* one that order leaves behind.
C3_RepliesOfOneTotalOrder ==
    /\ \A i \in 1..Len(hist) : hist[i].resp = ExpectedReply(hist, i)
    /\ \A k \in {kK, kJ} :
          /\ k \in DOMAIN db <=> PresentBefore(hist, Len(hist) + 1, k)
          /\ k \in DOMAIN db => db[k] = EntryAfter(hist, k)

\* Two operations of two connections overlapped, and the GET that took the
\* lock second returned what the SET before it stored.
C3_Witness ==
    /\ Len(hist) = 2
    /\ Overlap(hist, 1, 2)
    /\ hist[1].cmd.op = "Set"
    /\ IsGetOn(hist[2], hist[1].cmd.key)
    /\ hist[2].resp = BulkString(hist[1].cmd.value)

\* Every SET on k the history holds after its i-th operation carries NX.
OnlyNXAfter(h, i, k) ==
    \A j \in (i + 1)..Len(h) : IsSetOn(h[j], k) => h[j].cmd.only_if = "DoesNotExists"

\* C4: SET k v1 NX on an absent key applies, and a SET k v2 NX that follows is
\* skipped with a null reply and leaves the store holding v1; in general no
\* SET with NX changes the entry of a key that is in the mapping: an entry
\* followed only by NX writes stays as it was written.
C4_NXKeepsPresentEntry ==
    \A i \in 1..Len(hist) :
        LET e == hist[i]
            k == e.cmd.key
        IN  /\ (e.cmd.op = "Set" /\ e.cmd.only_if = "DoesNotExists") =>
                  IF PresentBefore(hist, i, k)
                  THEN e.resp = NullBulkString
                  ELSE e.resp = (IF e.cmd.get THEN NullBulkString ELSE OkReply)
            /\ (AppliedAt(hist, i) /\ OnlyNXAfter(hist, i, k)) =>
                  /\ k \in DOMAIN db
                  /\ db[k] = DbValue(e.cmd.value, Deadline(e))
                  /\ \A j \in (i + 1)..Len(hist) :
                        IsSetOn(hist[j], k) => hist[j].resp = NullBulkString

\* SET k v1 NX was applied on an absent key and the SET k v2 NX read after it
\* was skipped.
C4_Witness ==
    /\ Len(hist) = 2
    /\ hist[2].inv = 1
    /\ hist[1].cmd.op = "Set" /\ hist[1].cmd.only_if = "DoesNotExists"
    /\ IsSetOn(hist[2], hist[1].cmd.key) /\ hist[2].cmd.only_if = "DoesNotExists"
    /\ ~hist[2].cmd.get
    /\ hist[1].cmd.value # hist[2].cmd.value
    /\ hist[1].resp = OkReply
    /\ hist[2].resp = NullBulkString
    /\ db[hist[1].cmd.key] = DbValue(hist[1].cmd.value, NoInstant)

\* C5: when SET's conflict check fails (XX on a key absent from the mapping,
\* NX on a key present in it) the step that ends the SET leaves the store as
\* it is and replies null, also when the GET option is set.
C5_ConflictLeavesStoreUnchanged ==
    [][\A c \in Conns :
          (/\ conn[c].pc \in {"check", "insert"}
           /\ conn'[c] # conn[c]
           /\ Conflict(db, conn[c].cmd))
          => /\ db' = db
             /\ conn'[c].pc = "write" => conn'[c].resp = NullBulkString
             /\ conn'[c].pc \in {"insert", "write"}]_vars

\* A SET with NX and GET on a present key was skipped: the reply is null, not
\* the payload, and the entry is the one written before.
C5_Witness ==
    /\ Len(hist) = 2
    /\ hist[1].cmd.op = "Set"
    /\ hist[1].resp = OkReply
    /\ IsSetOn(hist[2], hist[1].cmd.key)
    /\ hist[2].cmd.only_if = "DoesNotExists"
    /\ hist[2].cmd.get
    /\ hist[2].cmd.value # hist[1].cmd.value
    /\ hist[2].resp = NullBulkString
    /\ db[hist[1].cmd.key] = DbValue(hist[1].cmd.value, NoInstant)

\* C6: an applied SET k v2 with the GET option replies with the payload k held
\* just before the write (that of the last applied SET on k), or null if k had
\* no entry, and leaves the store holding v2.
C6_GetOptionRepliesOldValue ==
    \A i \in 1..Len(hist) :
        LET e == hist[i]
            k == e.cmd.key
            before == LastApplied(hist, i, k)
        IN  (e.cmd.op = "Set" /\ e.cmd.get /\ AppliedAt(hist, i)) =>
               /\ e.resp = (IF before = 0 THEN NullBulkString
                            ELSE BulkString(hist[before].cmd.value))
               /\ LastApplied(hist, Len(hist) + 1, k) = i =>
                     k \in DOMAIN db /\ db[k].value = e.cmd.value

\* SET k v1, then SET k v2 GET: the reply is v1 and the store holds v2.
C6_Witness ==
    /\ Len(hist) = 2
    /\ hist[1].cmd.op = "Set" /\ ~hist[1].cmd.get
    /\ IsSetOn(hist[2], hist[1].cmd.key)
    /\ hist[2].cmd.get
    /\ hist[2].cmd.value # hist[1].cmd.value
    /\ hist[2].resp = BulkString(hist[1].cmd.value)
    /\ db[hist[2].cmd.key].value = hist[2].cmd.value

\* C7: after a SET k v with EX 0 or PX 0 is applied, every following GET k
\* (until the next applied SET on k) yields null, also one run at the clock
\* instant of the SET, while k stays in the mapping.
C7_ImmediateExpiryReadsNull ==
    \A i \in 1..Len(hist) : \A j \in (i + 1)..Len(hist) :
        (/\ AppliedAt(hist, i)
         /\ hist[i].cmd.expiry.kind \in {"Seconds", "Milliseconds"}
         /\ hist[i].cmd.expiry.n = 0
         /\ IsGetOn(hist[j], hist[i].cmd.key)
         /\ LastApplied(hist, j, hist[i].cmd.key) = i)
        => /\ hist[j].resp = NullBulkString
           /\ hist[i].cmd.key \in DOMAIN db

\* C8: GET never changes the store: no step of a task that runs a GET changes
\* the mapping, whether the key is live, absent or expired.
C8_GetLeavesStoreUnchanged ==
    [][\A c \in Conns :
          (/\ conn'[c] # conn[c]
           /\ conn[c].cmd.op = "Get" \/ conn'[c].cmd.op = "Get")
          => db' = db]_vars

\* A GET found an expired entry: it replied null and the entry is still in
\* the mapping.
C8_Witness ==
    /\ Len(hist) = 2
    /\ hist[1].cmd.op = "Set"
    /\ IsGetOn(hist[2], hist[1].cmd.key)
    /\ hist[2].resp = NullBulkString
    /\ hist[2].cmd.key \in DOMAIN db
    /\ db[hist[2].cmd.key].expires_at.some
    /\ db[hist[2].cmd.key].expires_at.at < hist[2].t

\* C9: every syntactically valid SET, also one carrying EXAT, PXAT or KEEPTTL,
\* executes to completion and produces one reply that is OK, the old value or
\* null: no task aborts while it runs a SET.
C9_EverySetCompletes ==
    /\ \A c \in Conns : conn[c].cmd.op = "Set" => conn[c].pc # "panicked"
    /\ \A i \in 1..Len(hist) :
          hist[i].cmd.op = "Set" =>
             hist[i].resp.tag \in {"SimpleString", "BulkString", "NullElement"}

\* C10: a request that decodes to an element but fails command parsing gets
\* one SimpleError reply on its connection and leaves the store unchanged, and
\* the connection goes on to its next request: reading it makes the error
\* reply the pending one, and the next step of the task writes exactly that
\* reply and returns to reading.
C10_CommandErrorRepliesAndContinues ==
    [][\A c \in Conns :
          /\ (/\ conn[c].pc = "read"
              /\ conn'[c].pc # "read"
              /\ ~try_from(conn'[c].elem).ok)
             => /\ conn'[c].pc = "write"
                /\ conn'[c].resp.tag = "SimpleError"
                /\ db' = db /\ poisoned' = poisoned /\ lock' = lock
                /\ out' = out
          /\ (/\ conn[c].pc # "read"
              /\ conn'[c] # conn[c]
              /\ ~try_from(conn[c].elem).ok)
             => /\ conn[c].pc = "write"
                /\ conn'[c].pc = "read"
                /\ out'[c] = Append(out[c], conn[c].resp)
                /\ db' = db /\ poisoned' = poisoned /\ lock' = lock]_vars

\* A connection got the error reply for a request that is no command while
\* the store held an entry, and is reading again.
C10_Witness ==
    \E c \in Conns :
        /\ out[c] = << ParseErrorReply >>
        /\ conn[c].pc = "read"
        /\ db # << >>

\* The buffer of task c does not decode to an element.
Undecodable(c) ==
    /\ conn[c].buf # << >>
    /\ parse_element(Input(conn[c].buf, BufSize), 1).kind # "ok"

\* C11: when the bytes of a read cannot be decoded into an element, the
\* handler replies with a SimpleError and keeps the connection open: the task
\* is not terminated, its pending or last written reply is a SimpleError, and
\* the store is unchanged (the task never goes for the lock).
C11_DecodeFailureRepliesAndContinues ==
    \A c \in Conns :
        Undecodable(c) =>
            /\ conn[c].pc \in {"write", "read"}
            /\ conn[c].pc = "write" => conn[c].resp.tag = "SimpleError"
            /\ conn[c].pc = "read" =>
                  /\ out[c] # << >>
                  /\ out[c][Len(out[c])].tag = "SimpleError"

\* C12: when a client closes its socket only that connection's task ends, and
\* only between two commands: the step that ends a task is taken by a task
\* that waits for a request (its command, if any, has completed and it does
\* not hold the lock), it changes neither the store, the lock nor any reply,
\* and it leaves every other task as it is; a task that has ended never
\* holds the lock the others need.
C12_CloseEndsOnlyItsTask ==
    [][\A c \in Conns :
          (conn[c].pc # "closed" /\ conn'[c].pc = "closed") =>
             /\ conn[c].pc = "read"
             /\ lock # c
             /\ db' = db /\ poisoned' = poisoned /\ lock' = lock /\ out' = out
             /\ hist' = hist
             /\ \A d \in Conns \ {c} : conn'[d] = conn[d]
             /\ lock' # c]_vars

\* A client closed its socket after its SET was served, and the GET of
\* another connection was executed after that close: the store still holds
\* what the closed connection wrote, and the reply was written.
C12_Witness ==
    \E c \in Conns : \E i \in 1..Len(hist) : \E j \in 1..Len(hist) :
        /\ conn[c].pc = "closed"
        /\ hist[i].conn = c /\ hist[i].cmd.op = "Set" /\ hist[i].resp = OkReply
        /\ hist[j].conn # c
        /\ j > conn[c].inv
        /\ IsGetOn(hist[j], hist[i].cmd.key)
        /\ hist[j].resp = BulkString(hist[i].cmd.value)
        /\ out[hist[j].conn] # << >>

\* The tasks inside a critical section: one GET's read and expiry check, or
\* one SET's check and insert.
InCriticalSection == { c \in Conns : conn[c].pc \in {"get", "check", "insert"} }

\* C13: at most one task holds the store lock, and a task holds it exactly
\* while it executes one GET's read-and-expiry-check or one SET's
\* check-and-insert: a task that waits for its socket, decodes a request,
\* waits for the lock, writes a reply or has ended does not hold it.
C13_LockHeldOnlyInsideOneOperation ==
    /\ Cardinality(InCriticalSection) <= 1
    /\ \A c \in Conns : (lock = c) <=> (c \in InCriticalSection)
    /\ lock \in Conns \cup {0}

\* One task is between a SET's check and its insert with the lock, while
\* another waits for the lock and has not entered.
C13_Witness ==
    \E c \in Conns : \E d \in Conns :
        /\ lock = c
        /\ conn[c].pc = "insert"
        /\ conn[d].pc = "lock"

\* The task record t serves a PING.
ServesPing(t) ==
    /\ t.pc # "read"
    /\ try_from(t.elem).ok
    /\ try_from(t.elem).cmd.op = "Ping"

\* The bytes +PONG CR LF.
PongBytes == << "+", "P", "O", "N", "G", CR, LF >>

\* C14: PING always yields exactly +PONG\r\n, whatever the store holds and
\* whatever the other connections do, and neither reads nor changes the
\* store: reading a PING makes PONG the pending reply without touching the
\* store or the lock, and the only other step of that task writes exactly
\* that reply and goes back to reading.
C14_PingRepliesPongAndLeavesStore ==
    [][\A c \in Conns :
          /\ (conn[c].pc = "read" /\ ServesPing(conn'[c])) =>
                /\ conn'[c].pc = "write"
                /\ serialise(conn'[c].resp) = PongBytes
                /\ db' = db /\ lock' = lock /\ poisoned' = poisoned
                /\ hist' = hist
          /\ (ServesPing(conn[c]) /\ conn'[c] # conn[c]) =>
                /\ conn[c].pc = "write"
                /\ conn'[c].pc = "read"
                /\ out'[c] = Append(out[c], SimpleString(<< "P", "O", "N", "G" >>))
                /\ db' = db /\ lock' = lock /\ poisoned' = poisoned
                /\ hist' = hist]_vars

\* A connection got PONG while another task was inside a SET with the lock.
C14_Witness ==
    \E c \in Conns : \E d \in Conns :
        /\ out[c] # << >>
        /\ serialise(out[c][Len(out[c])]) = PongBytes
        /\ lock = d
        /\ conn[d].pc = "insert"

\* The requested names the configuration map holds, in request order.
KnownNames(params) == SelectSeq(params, LAMBDA name : name \in DOMAIN Opts)

\* Task c has executed a CONFIG GET whose reply is pending.
ConfigGetPending(c) ==
    /\ conn[c].pc = "write"
    /\ conn[c].cmd.op = "GetConfig"
    /\ try_from(conn[c].elem).ok

HasParsed(c) == conn[c].pc \notin {"read", "closed"}

ConflictFamily == { tNX, tXX }

ArgumentKeywords == { tEX, tPX, tEXAT, tPXAT }

ExpiryFamily == ArgumentKeywords \cup { tKEEPTTL }

Keywords == ConflictFamily \cup { tGET } \cup ExpiryFamily

\* The item is a bulk string that spells, in either letter case, a keyword
\* of the family.
IsKeyword(item, family) ==
    item.tag = "BulkString" /\ to_uppercase(item.text) \in family

\* The element is SET with a key and a value, option items following.
IsSetWithOptions(e) ==
    /\ e.tag = "Array"
    /\ Len(e.items) >= 3
    /\ e.items[1] = BulkString(tSET)
    /\ e.items[2].tag = "BulkString"
    /\ e.items[3].tag = "BulkString"

\* The element cut after its n-th item.
Prefix(e, n) == Array(SubSeq(e.items, 1, n))

\* The positions of the option items that spell a keyword of the family.
TokensOf(items, family) ==
    { i \in 4..Len(items) : IsKeyword(items[i], family) }

\* C16: in a SET whose items up to some option item are accepted, an option
\* item that is the second of the conflict family (NX, XX), a second GET or
\* the second of the expiry family (EX, PX, EXAT, PXAT, KEEPTTL) makes the
\* parse fail with SyntaxError; hence a SET that parses has at most one
\* item of each family, and its conflict mode, its GET flag and its expiry
\* form are those of that one item, none overwritten by a later item.
C16_SecondOptionOfFamilyIsSyntaxError ==
    \A c \in Conns :
        (HasParsed(c) /\ IsSetWithOptions(conn[c].elem)) =>
            LET e == conn[c].elem
                items == e.items
                r == try_from(e)
            IN  /\ \A i \in 4..Len(items) :
                      \A family \in { ConflictFamily, { tGET }, ExpiryFamily } :
                          (/\ IsKeyword(items[i], family)
                           /\ \E j \in 4..(i - 1) : IsKeyword(items[j], family)
                           /\ try_from(Prefix(e, i - 1)).ok)
                          => r = Err("SyntaxError")
                /\ r.ok =>
                      LET conflict == TokensOf(items, ConflictFamily)
                          gets == TokensOf(items, { tGET })
                          expiry == TokensOf(items, ExpiryFamily)
                      IN  /\ Cardinality(conflict) <= 1
                          /\ Cardinality(gets) <= 1
                          /\ Cardinality(expiry) <= 1
                          /\ r.cmd.only_if =
                                (IF conflict = {} THEN "None"
                                 ELSE IF \A i \in conflict : IsKeyword(items[i], { tNX })
                                      THEN "DoesNotExists"
                                      ELSE "AlreadyExists")
                          /\ r.cmd.get = (gets # {})
                          /\ r.cmd.expiry.kind =
                                (IF expiry = {} THEN "None"
                                 ELSE IF \A i \in expiry : IsKeyword(items[i], { tKEEPTTL })
                                      THEN "KeepTtl"
                                      ELSE ExpiryKindOf(to_uppercase(
                                               items[CHOOSE i \in expiry : TRUE].text)))

\* SET k a NX XX, or SET k a EX 1 KEEPTTL, was read and refused: the task
\* answers with the error reply.
C16_Witness ==
    /\ \E c \in Conns :
          /\ conn[c].pc = "write"
          /\ conn[c].elem \in { SetWith(<< BulkString(tNX), BulkString(tXX) >>),
                                SetWith(<< BulkString(tEX), BulkString(<< "1" >>),
                                           BulkString(tKEEPTTL) >>) }
          /\ try_from(conn[c].elem) = Err("SyntaxError")
          /\ conn[c].resp = ParseErrorReply

\* Non-negative integer text: an optional plus sign and at least one digit.
IsNumberText(s) ==
    LET digits == IF s # << >> /\ s[1] = "+" THEN Tail(s) ELSE s
    IN  digits # << >> /\ \A k \in 1..Len(digits) : IsDigit(digits[k])

\* The item is of one of the two forms an expiry argument may have.
IsNumberItem(item) ==
    \/ item.tag = "Integer"
    \/ item.tag = "BulkString" /\ IsNumberText(item.text)

\* The number a number item of either form denotes.
NumberOf(item) ==
    IF item.tag = "Integer" THEN item.int
    ELSE DecimalValue(IF item.text[1] = "+" THEN Tail(item.text) ELSE item.text)

\* C17: in a SET whose items up to an EX, PX, EXAT or PXAT are accepted and
\* hold no expiry item yet, that keyword takes the one item after it: when
\* there is none, or it is neither a native Integer nor a BulkString of
\* non-negative integer text (NX, say), the parse fails with SyntaxError and
\* yields no command; when it is a number of the word's range, the parse
\* goes on behind it with that expiry, the other fields as before, and the
\* item after the number is read as an option, not as a second argument.
C17_ExpiryKeywordTakesOneNumber ==
    \A c \in Conns :
        (HasParsed(c) /\ IsSetWithOptions(conn[c].elem)) =>
            LET e == conn[c].elem
                items == e.items
                r == try_from(e)
            IN  \A i \in 4..Len(items) :
                    (/\ IsKeyword(items[i], ArgumentKeywords)
                     /\ \A j \in 4..(i - 1) : ~IsKeyword(items[j], ExpiryFamily)
                     /\ try_from(Prefix(e, i - 1)).ok)
                    => /\ (i = Len(items) \/ ~IsNumberItem(items[i + 1]))
                            => (r = Err("SyntaxError") /\ ~r.ok)
                       /\ (/\ i < Len(items)
                           /\ IsNumberItem(items[i + 1])
                           /\ NumberOf(items[i + 1]) \in 0..U64Max)
                            => LET p == try_from(Prefix(e, i - 1))
                                   q == try_from(Prefix(e, i + 1))
                               IN  /\ q.ok
                                   /\ q.cmd.expiry =
                                         Expiry(ExpiryKindOf(to_uppercase(items[i].text)),
                                                NumberOf(items[i + 1]))
                                   /\ q.cmd.only_if = p.cmd.only_if
                                   /\ q.cmd.get = p.cmd.get
                                   /\ (i + 2 <= Len(items)
                                       /\ ~IsKeyword(items[i + 2], Keywords))
                                        => r = Err("InvalidCommand")

\* SET k a EX NX was read and refused, NX standing where the number of EX
\* belongs.
C17_Witness ==
    \E c \in Conns :
        /\ conn[c].pc = "write"
        /\ conn[c].elem = SetWith(<< BulkString(tEX), BulkString(tNX) >>)
        /\ try_from(conn[c].elem) = Err("SyntaxError")
        /\ conn[c].resp = ParseErrorReply

\* The element with its i-th item, a native Integer, replaced by the bulk
\* string of that number's decimal text.
WithTextAt(e, i) ==
    Array([e.items EXCEPT ![i] = BulkString(DecimalText(e.items[i].int))])

\* C18: a SET whose EX, PX, EXAT or PXAT argument is the native Integer n,
\* n not negative, and the same SET with the BulkString of n's decimal text
\* in its place parse to the same result: equal key, value, conflict mode,
\* GET flag and expiry, or the same error.
C18_IntegerAndTextArgumentsParseAlike ==
    \A c \in Conns :
        (HasParsed(c) /\ IsSetWithOptions(conn[c].elem)) =>
            LET e == conn[c].elem
                items == e.items
            IN  \A i \in 5..Len(items) :
                    (/\ IsKeyword(items[i - 1], ArgumentKeywords)
                     /\ items[i].tag = "Integer"
                     /\ items[i].int >= 0)
                    => /\ try_from(e) = try_from(WithTextAt(e, i))
                       /\ (i = 5 /\ Len(items) = 5) =>
                             /\ try_from(e).ok
                             /\ try_from(e).cmd =
                                   CmdSet(kK, vA, "None", FALSE,
                                          Expiry(ExpiryKindOf(to_uppercase(items[4].text)),
                                                 items[5].int))

\* SET k a PX 1000 with a native Integer was read and parsed to the expiry
\* of 1000 milliseconds, as its text form does.
C18_Witness ==
    \E c \in Conns :
        /\ HasParsed(c)
        /\ conn[c].elem = SetWith(<< BulkString(tPX), Integer(1000) >>)
        /\ conn[c].cmd = CmdSet(kK, vA, "None", FALSE, Expiry("Milliseconds", 1000))
        /\ try_from(SetWith(<< BulkString(tPX), BulkString(<< "1", "0", "0", "0" >>) >>))
              = Ok(conn[c].cmd)

\* The element is an array whose first item is the bulk string verb.
HasVerb(e, verb) ==
    e.tag = "Array" /\ e.items # << >> /\ e.items[1] = BulkString(verb)

\* ECHO or GET with an item count other than 2 or an argument that is no
\* bulk string.
BadOneArgCommand(e) ==
    /\ HasVerb(e, tECHO) \/ HasVerb(e, tGET)
    /\ Len(e.items) # 2 \/ e.items[2].tag # "BulkString"

\* SET with fewer than 3 items, or a key or a value that is no bulk string.
BadSetHead(e) ==
    /\ HasVerb(e, tSET)
    /\ \/ Len(e.items) < 3
       \/ e.items[2].tag # "BulkString"
       \/ e.items[3].tag # "BulkString"

\* C19: parsing yields InvalidCommand for ECHO or GET with an item count
\* other than 2 or an argument that is no BulkString, for SET with fewer
\* than 3 items or a key or value that is no BulkString, and for SET at an
\* option item, the items before it accepted, that is no BulkString or
\* spells none of NX, XX, GET, EX, PX, EXAT, PXAT, KEEPTTL; and
\* InvalidCommand has no other cause.
C19_InvalidCommandCauses ==
    \A c \in Conns :
        HasParsed(c) =>
            LET e == conn[c].elem
                r == try_from(e)
            IN  /\ BadOneArgCommand(e) => r = Err("InvalidCommand")
                /\ BadSetHead(e) => r = Err("InvalidCommand")
                /\ IsSetWithOptions(e) =>
                      \A i \in 4..Len(e.items) :
                          (/\ ~IsKeyword(e.items[i], Keywords)
                           /\ try_from(Prefix(e, i - 1)).ok)
                          => r = Err("InvalidCommand")
                /\ r.err = "InvalidCommand" =>
                      \/ BadOneArgCommand(e)
                      \/ BadSetHead(e)
                      \/ /\ IsSetWithOptions(e)
                         /\ \E i \in 4..Len(e.items) : ~IsKeyword(e.items[i], Keywords)

\* SET k a GET ZZ was read and refused as an invalid command at ZZ, the GET
\* before it accepted.
C19_Witness ==
    \E c \in Conns :
        /\ conn[c].pc = "write"
        /\ conn[c].elem = SetWith(<< BulkString(tGET), BulkString(tZZ) >>)
        /\ try_from(Prefix(conn[c].elem, 4)).ok
        /\ try_from(conn[c].elem) = Err("InvalidCommand")
        /\ conn[c].resp = ParseErrorReply

KnownVerbs == { tPING, tECHO, tGET, tSET, tCONFIG }

\* C20: command parsing fails with MissingCommand exactly when the element
\* is the empty Array, and with UnknownCommand when the element is not an
\* Array, when the Array's first item is not a BulkString, and when the
\* first item's text is not a known verb.
C20_MissingAndUnknownCommand ==
    \A c \in Conns :
        HasParsed(c) =>
            LET e == conn[c].elem
                r == try_from(e)
            IN  /\ (r.err = "MissingCommand") = (e = Array(<< >>))
                /\ e = Array(<< >>) => r = Err("MissingCommand")
                /\ e.tag # "Array" => r = Err("UnknownCommand")
                /\ (e.tag = "Array" /\ e.items # << >>) =>
                      /\ e.items[1].tag # "BulkString" => r = Err("UnknownCommand")
                      /\ (e.items[1].tag = "BulkString"
                          /\ e.items[1].text \notin KnownVerbs)
                            => r = Err("UnknownCommand")

\* The empty array, the one element its clients send, was read and refused
\* for lack of a command.
C20_Witness ==
    /\ \E c \in Conns :
          /\ conn[c].pc = "write"
          /\ conn[c].elem = Array(<< >>)
          /\ try_from(conn[c].elem) = Err("MissingCommand")
          /\ conn[c].resp = ParseErrorReply
    /\ workload = { Array(<< >>) }

\* The SET with the text of every option item in upper case.
UpperOptions(e) ==
    Array([i \in 1..Len(e.items) |->
             IF i >= 4 /\ e.items[i].tag = "BulkString"
             THEN BulkString(to_uppercase(e.items[i].text))
             ELSE e.items[i]])

\* C21: the verb is matched as written, so a first item that spells a known
\* verb in any casing other than upper case (ping, Set, get) fails with
\* UnknownCommand; SET's option keywords are matched in any casing, so a SET
\* parses to the same result as the SET whose option items are in upper
\* case.
C21_VerbCaseMattersOptionCaseDoesNot ==
    \A c \in Conns :
        HasParsed(c) =>
            LET e == conn[c].elem
            IN  /\ (/\ e.tag = "Array" /\ e.items # << >>
                    /\ e.items[1].tag = "BulkString"
                    /\ e.items[1].text \notin KnownVerbs
                    /\ to_uppercase(e.items[1].text) \in KnownVerbs)
                   => try_from(e) = Err("UnknownCommand")
                /\ IsSetWithOptions(e) => try_from(e) = try_from(UpperOptions(e))

\* SET k a nx px 1 GeT was read and parsed to the command of
\* SET k a NX PX 1 GET.
C21_Witness ==
    \E c \in Conns :
        /\ HasParsed(c)
        /\ conn[c].elem # UpperOptions(conn[c].elem)
        /\ Len(conn[c].elem.items) = 7
        /\ try_from(conn[c].elem).ok
        /\ conn[c].cmd = CmdSet(kK, vA, "DoesNotExists", TRUE, Expiry("Milliseconds", 1))

\* CONFIG without a subcommand item, with a subcommand that is no bulk
\* string, or CONFIG GET with a parameter that is no bulk string.
BadConfigShape(e) ==
    /\ HasVerb(e, tCONFIG)
    /\ \/ Len(e.items) < 2
       \/ e.items[2].tag # "BulkString"
       \/ /\ e.items[2] = BulkString(tGET)
          /\ \E i \in 3..Len(e.items) : e.items[i].tag # "BulkString"

\* C22: CONFIG with no subcommand item, with a subcommand that is not a
\* BulkString, or CONFIG GET with a parameter that is not a BulkString,
\* fails with InvalidCommand.
C22_ConfigShapeErrorsAreInvalidCommand ==
    \A c \in Conns :
        (HasParsed(c) /\ BadConfigShape(conn[c].elem))
            => try_from(conn[c].elem) = Err("InvalidCommand")

\* ------------------------------------------------------------------------
\* The codec (C23 to C27).

\* Task c has encoded an element and has decoded, or failed to decode, the
\* encoding followed by the bytes rest.
Decoded(c, rest) ==
    /\ conn[c].pc \in {"done", "panicked"}
    /\ conn[c].enc # << >>
    /\ conn[c].buf = conn[c].enc \o rest

\* C23: for every element x, decoding the bytes that encoding x produces
\* returns x with nothing left over, and two encodings of x are the same
\* bytes.
C23_DecodeInvertsEncode ==
    /\ \A c \in Conns :
          Decoded(c, << >>) =>
              conn[c].res = DecodeOk(conn[c].elem, Len(conn[c].enc) + 1)
    /\ \A c, d \in Conns :
          (conn[c].enc # << >> /\ conn[d].enc # << >>) => conn[c].enc = conn[d].enc

\* Task c was given exactly these bytes and has run the decoder on them.
DecodedWire(c, bytes) ==
    /\ conn[c].pc \in {"done", "panicked"}
    /\ conn[c].enc = << >>
    /\ conn[c].buf = bytes

\* The five byte sequences and the element each is to decode to.
NullForms ==
    { << << "$", "-", "1", CR, LF >>, NullBulkString >>,
      << << "*", "-", "1", CR, LF >>, NullArray >>,
      << << "_", CR, LF >>, Null >>,
      << << "*", "0", CR, LF >>, Array(<< >>) >>,
      << << "$", "0", CR, LF, CR, LF >>, BulkString(<< >>) >> }

\* C24: the top-level decoder decodes $-1 CR LF, *-1 CR LF and _ CR LF each
\* to its own null element, *0 CR LF to the empty Array and $0 CR LF CR LF
\* to the empty BulkString, the five results being pairwise distinct.
C24_NullFormsDecodeToDistinctElements ==
    /\ \A c \in Conns : \A form \in NullForms :
          DecodedWire(c, form[1]) => conn[c].res = DecodeOk(form[2], Len(form[1]) + 1)
    /\ \A f, g \in NullForms : f[1] # g[1] => f[2] # g[2]

\* C25: decoding consumes exactly the bytes that encode one element and
\* leaves the rest: for every element x and all bytes r, decoding the
\* encoding of x followed by r yields x and stops where r begins; so the
\* empty SimpleString and the empty SimpleError, followed by further bytes,
\* decode to the empty text.
C25_DecodeStopsAfterOneElement ==
    \A c \in Conns : \A r \in Trailers :
        Decoded(c, r) => conn[c].res = DecodeOk(conn[c].elem, Len(conn[c].enc) + 1)

\* C26: for every byte sequence the decoder returns an element or a parse
\* error and never aborts; a BulkString header that declares more bytes than
\* follow, and a payload that is no valid text, give a parse error.
C26_DecoderNeverAborts ==
    \A c \in Conns :
        /\ conn[c].pc # "panicked"
        /\ conn[c].pc = "done" => conn[c].res.kind \in {"ok", "err"}
        /\ \A bytes \in { << "$", "5", CR, LF, "a", "b" >>,
                          << "$", "1", CR, LF, BadByte, CR, LF >> } :
              DecodedWire(c, bytes) => conn[c].res = DecodeErr

\* The encodings of the items, one after the other.
RECURSIVE Concatenated(_)
Concatenated(items) ==
    IF items = << >> THEN << >>
    ELSE serialise(Head(items)) \o Concatenated(Tail(items))

\* C27: the encoding of an Array is its count line followed by the
\* encodings of its children, byte for byte and in order, also for a child
\* that holds bytes of 0x80 and above.
C27_ArrayEncodingConcatenatesChildren ==
    \A c \in Conns :
        (conn[c].enc # << >> /\ conn[c].elem.tag = "Array") =>
            conn[c].enc = << "*" >> \o DecimalText(Len(conn[c].elem.items))
                          \o << CR, LF >> \o Concatenated(conn[c].elem.items)

\* ------------------------------------------------------------------------
\* The store over time (C28 to C30).

\* The i-th operation of the history is the applied SET on k that no later
\* applied SET on k follows.
IsLastAppliedSet(i, k) ==
    /\ hist[i].cmd.op = "Set" /\ hist[i].cmd.key = k
    /\ AppliedAt(hist, i)
    /\ \A j \in (i + 1)..Len(hist) :
          ~(hist[j].cmd.op = "Set" /\ hist[j].cmd.key = k /\ AppliedAt(hist, j))

\* C28: an applied SET replaces payload and expiry together.  The entry of
\* k is, in both fields, that of the last applied SET on k; when that SET
\* names no expiry the entry has none, whatever the entry before it had, so
\* the Get arm replies its payload at every instant and every GET that ran
\* after it returned that payload.
C28_SetReplacesPayloadAndExpiryTogether ==
    \A k \in {kK, kJ} : \A i \in 1..Len(hist) :
        IsLastAppliedSet(i, k) =>
            /\ k \in DOMAIN db
            /\ db[k].value = hist[i].cmd.value
            /\ db[k].expires_at = Deadline(hist[i])
            /\ hist[i].cmd.expiry.kind = "None" =>
                  /\ db[k] = DbValue(hist[i].cmd.value, NoInstant)
                  /\ \A t \in ClockValues :
                        GetReply(db, k, t) = BulkString(hist[i].cmd.value)
                  /\ \A g \in (i + 1)..Len(hist) :
                        (hist[g].cmd.op = "Get" /\ hist[g].cmd.key = k)
                            => hist[g].resp = BulkString(hist[i].cmd.value)

\* A SET k a with an expiry was applied, then SET k b with no expiry
\* option: k holds b and no expiry.
C28_Witness ==
    /\ Len(hist) = 2
    /\ AppliedAt(hist, 1) /\ hist[1].cmd.key = kK
    /\ hist[1].cmd.value = vA
    /\ Deadline(hist[1]).some
    /\ IsLastAppliedSet(2, kK)
    /\ hist[2].cmd.value = vB
    /\ hist[2].cmd.expiry.kind = "None"
    /\ db[kK] = DbValue(vB, NoInstant)

\* The lifetime, in milliseconds, that an EX or PX option asks for.
Lifetime(cmd) ==
    IF cmd.expiry.kind = "Seconds" THEN 1000 * cmd.expiry.n ELSE cmd.expiry.n

\* The i-th operation is an applied SET with EX or PX.
IsAppliedWithLifetime(i) ==
    /\ AppliedAt(hist, i)
    /\ hist[i].cmd.expiry.kind \in {"Seconds", "Milliseconds"}

\* The g-th operation is a GET that reads what the i-th, a SET, stored.
ReadsEntryOf(g, i) ==
    /\ g > i
    /\ hist[g].cmd.op = "Get" /\ hist[g].cmd.key = hist[i].cmd.key
    /\ LastApplied(hist, g, hist[i].cmd.key) = i

\* C29: a SET k v EX s or PX ms applied at instant t gives k the expiry
\* instant t plus s seconds, or ms milliseconds.  A GET k that reads this
\* entry returns v at every instant before the expiry instant and null at
\* every instant after it; clock readings never go back, so once a GET has
\* returned null no later GET of the same entry returns v; and EX n and
\* PX 1000 * n, applied at the same instant, give the same expiry instant.
C29_RelativeExpiryLifetime ==
    /\ \A i \in 1..Len(hist) :
          IsAppliedWithLifetime(i) =>
              LET k == hist[i].cmd.key
                  limit == hist[i].t + Lifetime(hist[i].cmd)
              IN  /\ IsLastAppliedSet(i, k) => db[k].expires_at = SomeInstant(limit)
                  /\ \A g \in 1..Len(hist) :
                        ReadsEntryOf(g, i) =>
                            /\ hist[g].t < limit
                                  => hist[g].resp = BulkString(hist[i].cmd.value)
                            /\ hist[g].t > limit => hist[g].resp = NullBulkString
                            /\ \A g2 \in (g + 1)..Len(hist) :
                                  (ReadsEntryOf(g2, i) /\ hist[g].resp = NullBulkString)
                                      => hist[g2].resp = NullBulkString
    /\ \A g \in 1..Len(hist) : \A g2 \in g..Len(hist) : hist[g].t <= hist[g2].t
    /\ \A k \in DOMAIN db : \A i, j \in 1..Len(hist) :
          (/\ IsLastAppliedSet(i, k)
           /\ IsAppliedWithLifetime(i)
           /\ IsAppliedWithLifetime(j)
           /\ hist[j].cmd.expiry.kind = "Milliseconds"
           /\ hist[i].cmd.expiry.kind = "Seconds"
           /\ hist[j].cmd.expiry.n = 1000 * hist[i].cmd.expiry.n)
          => db[k].expires_at.at - hist[i].t = hist[j].cmd.expiry.n

\* SET k a EX 1 was applied at instant 0, and a GET k that ran after the
\* expiry instant 1000 returned null.
C29_Witness ==
    /\ Len(hist) = 2
    /\ IsAppliedWithLifetime(1)
    /\ hist[1].cmd.expiry = Expiry("Seconds", 1)
    /\ hist[1].t = 0
    /\ ReadsEntryOf(2, 1)
    /\ hist[2].t > 1000
    /\ hist[2].resp = NullBulkString
    /\ db[kK].expires_at = SomeInstant(1000)

\* C30: under fair scheduling every task that waits for the store lock
\* with a GET or a SET eventually takes it, executes, gives it back and
\* writes its reply: no task waits for the store forever.
C30_LockWaitersAreServed ==
    \A c \in Conns : \A n \in 0..MaxOps :
        (conn[c].pc = "lock" /\ Len(out[c]) = n)
            ~> (Len(out[c]) = n + 1 /\ lock # c)

\* ------------------------------------------------------------------------
\* The bytes of one read (C31 and C32).

\* Task c has decoded the bytes of a read and has not yet written the reply.
ServesRead(c) ==
    conn[c].pc \in {"lock", "get", "check", "insert", "write"} /\ conn[c].n > 0

\* The bytes the last read of task c delivered.
Received(c) == SubSeq(conn[c].buf, 1, conn[c].n)

\* The received bytes after the element the task decoded: the remainder that
\* parse_element returned and the task dropped.
Dropped(c) ==
    LET d == parse_element(Input(conn[c].buf, BufSize), 1)
    IN  SubSeq(conn[c].buf, d.pos, conn[c].n)

\* C31: no complete frame of a read is discarded.  A task serves one element
\* per read and writes one reply for it, so every frame of the read is
\* executed only if the received bytes the task dropped after that element
\* hold no further complete frame.
C31_NoFrameOfAReadIsDiscarded ==
    \A c \in Conns :
        ServesRead(c) =>
            parse_element(Input(Dropped(c), Len(Dropped(c))), 1).kind # "ok"

\* C32: the command a task executes for a read is determined by the bytes of
\* that read alone: the element it serves is the one the received bytes
\* decode to by themselves, whatever earlier reads left in the buffer.
C32_StaleBytesAreNeverDecoded ==
    \A c \in Conns :
        ServesRead(c) =>
            LET d == parse_element(Input(Received(c), Len(Received(c))), 1)
            IN  d.kind = "ok" /\ d.elem = conn[c].elem

\* ------------------------------------------------------------------------
\* Entries past their expiry (C33 and C34).

\* The mapping holds an entry for the key of task c's command, and a GET on
\* that key at this instant would reply null: the entry has expired.
HoldsExpired(c) ==
    /\ conn[c].cmd.key \in DOMAIN db
    /\ IsExpired(db[conn[c].cmd.key], now)
    /\ GetReply(db, conn[c].cmd.key, now) = NullBulkString

\* C33: the existence check of SET looks only at whether the key is in the
\* mapping.  On a key whose entry has expired the check of a SET with NX
\* finds a conflict and the check of a SET with XX finds none; the SET with
\* NX then ends with the null reply and the store as it was, and the SET
\* with XX ends with the key holding the new payload.
C33_ExistenceCheckIgnoresExpiry ==
    [][\A c \in Conns :
          LET cmd == conn[c].cmd
          IN  /\ (conn[c].pc = "check" /\ conn'[c].pc # "check" /\ HoldsExpired(c)) =>
                    /\ conn'[c].pc = "insert"
                    /\ cmd.only_if = "DoesNotExists" => ~conn'[c].should_set
                    /\ cmd.only_if = "AlreadyExists" => conn'[c].should_set
              /\ (conn[c].pc = "insert" /\ conn'[c].pc # "insert" /\ HoldsExpired(c)) =>
                    /\ cmd.only_if = "DoesNotExists" =>
                          /\ ~conn[c].should_set
                          /\ conn'[c].pc = "write"
                          /\ conn'[c].resp = NullBulkString
                          /\ db' = db
                    /\ (cmd.only_if = "AlreadyExists" /\ cmd.expiry.kind = "None") =>
                          /\ conn[c].should_set
                          /\ conn'[c].pc = "write"
                          /\ db'[cmd.key] = DbValue(cmd.value, NoInstant)]_vars

\* A SET with NX has ended with the null reply on a key whose entry had
\* expired when it ran, and the expired entry is still in the mapping.
C33_Witness ==
    \E c \in Conns :
        /\ conn[c].pc = "write"
        /\ conn[c].cmd.op = "Set"
        /\ conn[c].cmd.only_if = "DoesNotExists"
        /\ conn[c].resp = NullBulkString
        /\ hist # << >>
        /\ hist[Len(hist)].conn = c
        /\ conn[c].cmd.key \in DOMAIN db
        /\ db[conn[c].cmd.key].value = vA
        /\ IsExpired(db[conn[c].cmd.key], hist[Len(hist)].t)

\* C34: an applied SET with the GET option replies with the payload of the
\* entry it replaces also when that entry has expired: in a state where GET
\* on the key replies null, the insert of SET k v GET replies the expired
\* payload, not null, and leaves k holding v.
C34_GetOptionRepliesExpiredPayload ==
    [][\A c \in Conns :
          LET cmd == conn[c].cmd
          IN  (/\ conn[c].pc = "insert" /\ conn'[c].pc # "insert"
               /\ cmd.get /\ conn[c].should_set
               /\ cmd.expiry.kind = "None"
               /\ HoldsExpired(c)) =>
                   /\ conn'[c].pc = "write"
                   /\ conn'[c].resp = BulkString(db[cmd.key].value)
                   /\ conn'[c].resp # NullBulkString
                   /\ db'[cmd.key].value = cmd.value]_vars

\* SET k a PX 1 was applied, and SET k b XX GET ran more than a millisecond
\* later: its pending reply is a, the payload that a GET at that instant
\* would no longer return.
C34_Witness ==
    \E c \in Conns :
        /\ Len(hist) = 2
        /\ hist[1].cmd.value = vA
        /\ hist[1].cmd.expiry = Expiry("Milliseconds", 1)
        /\ hist[2].conn = c
        /\ hist[2].cmd.get
        /\ hist[2].t > hist[1].t + 1
        /\ conn[c].pc = "write"
        /\ conn[c].resp = BulkString(vA)
        /\ db[kK].value = vB

\* ------------------------------------------------------------------------
\* The lock after an aborted SET (C35).

\* C35: whatever the other connections have sent, also after a task aborted
\* in the middle of a SET, a task that waits for the store lock with a GET or
\* SET gets it when it goes on: its next step takes the lock and enters the
\* Get or the Set arm, and never ends the task.
C35_LockStaysUsableAfterAbort ==
    [][\A c \in Conns :
          (conn[c].pc = "lock" /\ conn'[c] # conn[c]) =>
              /\ lock' = c
              /\ conn'[c].pc = (IF conn[c].cmd.op = "Get" THEN "get" ELSE "check")]_vars

\* ------------------------------------------------------------------------
\* The order of SET's options (C36).

\* The option items cut into groups: EX, PX, EXAT and PXAT with the item
\* after them, every other item alone.
RECURSIVE OptionGroups(_)
OptionGroups(items) ==
    IF items = << >> THEN << >>
    ELSE IF IsKeyword(items[1], ArgumentKeywords) /\ Len(items) >= 2
         THEN << SubSeq(items, 1, 2) >> \o OptionGroups(SubSeq(items, 3, Len(items)))
         ELSE << << items[1] >> >> \o OptionGroups(Tail(items))

\* The family of a group, "none" for a group that is no option.
GroupFamily(g) ==
    IF IsKeyword(g[1], ConflictFamily) THEN "only_if"
    ELSE IF IsKeyword(g[1], { tGET }) THEN "get"
    ELSE IF IsKeyword(g[1], { tKEEPTTL }) THEN "expiry"
    ELSE IF /\ IsKeyword(g[1], ArgumentKeywords) /\ Len(g) = 2
            /\ IsNumberItem(g[2]) /\ NumberOf(g[2]) \in 0..U64Max
         THEN "expiry"
    ELSE "none"

\* A valid set of options: every group is an option and no two groups are
\* of one family.
ValidOptionSet(gs) ==
    /\ \A i \in 1..Len(gs) : GroupFamily(gs[i]) # "none"
    /\ \A i \in 1..Len(gs) : \A j \in 1..Len(gs) :
          GroupFamily(gs[i]) = GroupFamily(gs[j]) => i = j

\* The orders n groups can be sent in.
GroupOrders(n) ==
    { p \in [1..n -> 1..n] : \A i \in 1..n : \A j \in 1..n : p[i] = p[j] => i = j }

\* The items of the groups gs sent in order p, from the i-th on.
RECURSIVE InOrder(_, _, _)
InOrder(gs, p, i) ==
    IF i > Len(gs) THEN << >> ELSE gs[p[i]] \o InOrder(gs, p, i + 1)

\* C36: the result of parsing SET does not depend on the order of its option
\* groups.  A SET whose options are a valid set (at most one of NX and XX,
\* at most one GET, at most one expiry form with its argument) parses, and
\* the same groups after the same key and value parse to the same command
\* in every order.  The result of the parse is looked at while the task
\* waits for the lock or has its reply pending.
C36_OptionOrderDoesNotMatter ==
    \A c \in Conns :
        (conn[c].pc \in {"lock", "write"} /\ IsSetWithOptions(conn[c].elem)) =>
            LET items == conn[c].elem.items
                gs == OptionGroups(SubSeq(items, 4, Len(items)))
                r == try_from(conn[c].elem)
            IN  ValidOptionSet(gs) =>
                    /\ r.ok
                    /\ conn[c].pc = "lock" => conn[c].cmd = r.cmd
                    /\ \A p \in GroupOrders(Len(gs)) :
                          try_from(Array(SubSeq(items, 1, 3) \o InOrder(gs, p, 1))) = r

\* A task serves SET k a with a PXAT group, GET and NX in this order, which
\* parsed to the command that NX, GET, PXAT 1 parses to.
C36_Witness ==
    \E c \in Conns :
        /\ conn[c].pc = "lock"
        /\ conn[c].elem = SetWith(<< BulkString(tPXAT), Integer(1),
                                     BulkString(tGET), BulkString(tNX) >>)
        /\ conn[c].cmd = CmdSet(kK, vA, "DoesNotExists", TRUE,
                                Expiry("TimestampMilliseconds", 1))
        /\ conn[c].cmd = try_from(SetWith(<< BulkString(tNX), BulkString(tGET),
                                             BulkString(tPXAT), Integer(1) >>)).cmd

\* ------------------------------------------------------------------------
\* Negative expiry arguments (C37).

\* C37: a SET whose EX, PX, EXAT or PXAT argument is a negative native
\* Integer is rejected with SyntaxError, as the same SET with the argument
\* as a BulkString of the negative decimal text is: the task replies the
\* error and never goes for the store with a large positive count.
C37_NegativeIntegerArgumentIsRejected ==
    \A c \in Conns :
        (/\ HasParsed(c) /\ IsSetWithOptions(conn[c].elem)
         /\ Len(conn[c].elem.items) = 5
         /\ IsKeyword(conn[c].elem.items[4], ArgumentKeywords)
         /\ conn[c].elem.items[5].tag = "Integer"
         /\ conn[c].elem.items[5].int < 0) =>
            LET items == conn[c].elem.items
                text == BulkString(SignedText(items[5].int))
            IN  /\ try_from(Array(SubSeq(items, 1, 4) \o << text >>)) = Err("SyntaxError")
                /\ try_from(conn[c].elem) = Err("SyntaxError")
                /\ conn[c].pc \in {"write", "panicked"} => conn[c].resp = ParseErrorReply
                /\ conn[c].pc \notin {"lock", "check", "insert"}

====
